---- MODULE Spec2Model ----
(***************************************************************************)
(* Model of the acquisition and deduplication pipeline of InsightMiner     *)
(* (src/InsightMiner/insight_miner.py): the retry/backoff engine, the      *)
(* download handler download_single_reel with its metadata fallback and    *)
(* raw-protocol fallback downloader, and the hash based deduplication of   *)
(* ContentProcessor.process_single_file.                                   *)
(***************************************************************************)
EXTENDS Integers, Sequences, FiniteSets, TLC

(***************************************************************************)
(* Bounds of the model.                                                    *)
(***************************************************************************)
\* largest max_retries handed to _retry_download_with_backoff
MaxRetries == 3
\* number of download_single_reel calls in a behaviour
MaxCalls == 1
\* number of files that arrive in the input folder in a behaviour
MaxFiles == 3
\* number of process_single_file calls in a behaviour
MaxProcess == 4
\* download_single_reel calls in a behaviour of the processing queue
MaxDownloads == 1
\* Drain passes in a behaviour of the processing queue
MaxDrains == 2
\* files process_batch processes in a behaviour of the processing queue
MaxBatch == 1
\* store_hash and increment_duplicate_count calls in a behaviour of the cache file
MaxCacheOps == 3

(***************************************************************************)
(* Exceptions.  An exception is its type name and the keywords that occur  *)
(* in str(e).lower(); the code classifies by substring tests on these.     *)
(***************************************************************************)
ErrValidation == [type |-> "ValidationError", msg |-> "1 validation error for Media", words |-> {"validation"}]
ErrValidationMsg == [type |-> "ClientError", msg |-> "response validation failed", words |-> {"validation"}]
ErrNotFound == [type |-> "MediaNotFound", msg |-> "Media not found or unavailable", words |-> {"not found"}]
ErrRateLimit == [type |-> "ClientThrottledError", msg |-> "rate limit reached", words |-> {"rate limit"}]
ErrReadTimeout == [type |-> "ReadTimeout", msg |-> "Read timed out. (read timeout=30)", words |-> {"timed out", "read timeout", "timeout"}]
ErrConnection == [type |-> "ConnectionError", msg |-> "Connection aborted.", words |-> {"connection"}]
ErrHTTP == [type |-> "HTTPError", msg |-> "500 Server Error", words |-> {"server error"}]
ErrLogin == [type |-> "LoginRequired", msg |-> "login_required", words |-> {"login_required"}]
\* what folder_path.mkdir(exist_ok=True) raises
ErrOS == [type |-> "PermissionError", msg |-> "[Errno 13] Permission denied", words |-> {"permission denied"}]

\* the exceptions a network call of instagrapi/requests raises
Errors == {ErrValidation, ErrValidationMsg, ErrNotFound, ErrRateLimit, ErrReadTimeout, ErrConnection, ErrHTTP, ErrLogin}

NoErr == [type |-> "none", msg |-> "", words |-> {}]

\* what an operation raises that itself went through the retry engine and
\* ran out of attempts on read timeouts
ErrNested == [type |-> "Exception", msg |-> "Download timeout after 3 retries: Read timed out. (read timeout=30)",
              words |-> {"timeout", "timed out", "read timeout"}]

\* a call that returns normally instead of raising
Returned == [type |-> "returned", msg |-> "", words |-> {}]

(***************************************************************************)
(* Configuration (Config.load_config) and the file system layout.          *)
(***************************************************************************)
\* INSTAGRAM_RETRY_ATTEMPTS, default of os.getenv
INSTAGRAM_RETRY_ATTEMPTS == 3
VIDEO_FOLDER == "input_videos"
INPUT_FOLDER == "input_images"
\* a download_folder a caller passes to download_single_reel
OverrideFolder == "custom_folder"
\* download_folder=None
NoFolder == ""

\* a path <folder>/instagram_<pk>.<ext>
PathOf(folder, pk, ext) == [folder |-> folder, pk |-> pk, ext |-> ext]
NoPath == [folder |-> "", pk |-> 0, ext |-> ""]
\* Path.name of such a path: safe_filename = f"instagram_{media_pk}" plus suffix
FileName(p) == "instagram_" \o ToString(p.pk) \o "." \o p.ext

(***************************************************************************)
(* Input URLs of download_single_reel: what the string tests of            *)
(* _validate_instagram_url and _detect_media_type_fallback see, and the pk *)
(* client.media_pk_from_url derives (0: it raises).                        *)
(***************************************************************************)
UrlReel == [text |-> "https://www.instagram.com/reel/Cx1/", domain |-> TRUE, scheme |-> TRUE, shape |-> "reel", pk |-> 1]
UrlPost == [text |-> "https://www.instagram.com/p/Cx2/", domain |-> TRUE, scheme |-> TRUE, shape |-> "p", pk |-> 2]
UrlTv == [text |-> "https://www.instagram.com/tv/Cx1/", domain |-> TRUE, scheme |-> TRUE, shape |-> "tv", pk |-> 1]
UrlNoScheme == [text |-> "www.instagram.com/reel/Cx1/", domain |-> TRUE, scheme |-> FALSE, shape |-> "reel", pk |-> 1]
UrlOtherSite == [text |-> "https://example.com/reel/Cx1/", domain |-> FALSE, scheme |-> TRUE, shape |-> "reel", pk |-> 1]
UrlNoCode == [text |-> "https://www.instagram.com/", domain |-> TRUE, scheme |-> TRUE, shape |-> "none", pk |-> 0]
InputUrls == {UrlReel, UrlPost, UrlTv, UrlNoScheme, UrlOtherSite, UrlNoCode}
NoUrl == [text |-> "", domain |-> FALSE, scheme |-> FALSE, shape |-> "none", pk |-> 0]

\* _validate_instagram_url: a known domain and an http(s):// prefix; a
\* missing content pattern is only logged
validate_instagram_url(u) == u.text # "" /\ u.domain /\ u.scheme

(***************************************************************************)
(* Metadata: client.media_info and the reconstruction fallback.            *)
(***************************************************************************)
NoMedia == [pk |-> 0, media_type |-> 0, is_fallback |-> FALSE]

\* a test that takes every failure of the metadata call for a validation failure
is_validation_error_any(e) == TRUE

\* a test that also matches throttling errors
is_validation_error_loose(e) == e.type = "ValidationError" \/ "validation" \in e.words \/ "rate limit" \in e.words

\* 'if "ValidationError" in error_type or "validation" in error_msg.lower()'
is_validation_error(e) == e.type = "ValidationError" \/ "validation" \in e.words

\* outcomes of the download probe of _detect_media_type_fallback: the media
\* type it returns and the number of structured download calls it made
ProbeOutcomes ==
    { [media_type |-> 2, calls |-> 1],   \* video_download probe succeeded
      [media_type |-> 1, calls |-> 2],   \* video failed, photo_download succeeded
      [media_type |-> 2, calls |-> 2] }  \* both failed: default video

\* _detect_media_type_fallback: the URL pattern decides, else the probe
detect_media_type_fallback(u, probe) ==
    IF u.shape = "reel" THEN [media_type |-> 2, calls |-> 0]
    ELSE IF u.shape = "p" THEN [media_type |-> 2, calls |-> 0]
    ELSE probe

(***************************************************************************)
(* Raw metadata documents and the extraction of candidate URLs.            *)
(***************************************************************************)
\* a version entry without "url" has url ""
NoItem == [video_versions |-> <<>>, image_candidates |-> <<>>, carousel_media |-> <<>>]
Primary(vs) == [video_versions |-> vs, image_candidates |-> <<>>, carousel_media |-> <<>>]

DocThree == [items |-> << Primary(<<"u1", "u2", "u3">>) >>]
DocTwo == [items |-> << Primary(<<"u1", "u2">>) >>]
DocFresh == [items |-> << Primary(<<"u3">>) >>]
DocCarousel ==
    [items |-> << [video_versions |-> <<"u1", "">>,
                   image_candidates |-> <<"u3">>,
                   carousel_media |-> << [media_type |-> 2, video_versions |-> <<"u1", "u4">>, image_candidates |-> <<>>],
                                         [media_type |-> 1, video_versions |-> <<>>, image_candidates |-> <<"u2", "u3">>] >>] >>]
DocEmpty == [items |-> <<>>]
RawDocs == {DocThree, DocTwo, DocFresh, DocCarousel, DocEmpty}
\* what client.private.get answers to _get_raw_media_data: a document with
\* status 200, or another status (an exception has the same effect)
RawResponses == {[status |-> 200, data |-> d] : d \in RawDocs} \cup {[status |-> 500, data |-> DocEmpty]}
\* _get_raw_media_data returns the document only "if response.status_code == 200"
raw_data_returned(r) == r.status = 200

InSeq(x, s) == \E i \in 1..Len(s) : s[i] = x

\* the primary loop: every url that is truthy, appended without a duplicate test
RECURSIVE AppendTruthy(_, _)
AppendTruthy(acc, us) ==
    IF us = <<>> THEN acc
    ELSE AppendTruthy(IF Head(us) # "" THEN Append(acc, Head(us)) ELSE acc, Tail(us))

\* the carousel loops: "if url and url not in all_urls"
RECURSIVE AppendNew(_, _)
AppendNew(acc, us) ==
    IF us = <<>> THEN acc
    ELSE AppendNew(IF Head(us) # "" /\ ~InSeq(Head(us), acc) THEN Append(acc, Head(us)) ELSE acc, Tail(us))

RECURSIVE CarouselUrls(_, _, _)
CarouselUrls(acc, cs, media_type) ==
    IF cs = <<>> THEN acc
    ELSE CarouselUrls(
            IF Head(cs).media_type = media_type
            THEN AppendNew(acc, IF media_type = 2 THEN Head(cs).video_versions ELSE Head(cs).image_candidates)
            ELSE acc,
            Tail(cs), media_type)

\* _extract_all_download_urls_from_raw_data
extract_all_download_urls_from_raw_data(raw_data, media_type) ==
    IF raw_data.items = <<>> THEN <<>>
    ELSE LET media_item == raw_data.items[1]
             mt == IF media_type = 2 THEN 2 ELSE 1
             primary == IF mt = 2 THEN media_item.video_versions ELSE media_item.image_candidates
         IN  CarouselUrls(AppendTruthy(<<>>, primary), media_item.carousel_media, mt)

(***************************************************************************)
(* Authenticated direct transfer.                                          *)
(***************************************************************************)
\* status codes of a CDN response
Statuses == {200, 403, 404, 500}
\* client.private.get raising inside the loop over fresh_urls, which ends the
\* loop (elsewhere an exception ends the transfer exactly as status 500 does)
Raised == 0
\* _write_downloaded_file: written, failed while writing, failed before open
WriteOutcomes == {"ok", "partial", "nofile"}

\* entries of the request log of one transfer
CdnReq(u, s, hdr) == [kind |-> "cdn", url |-> u, status |-> s, hdr |-> hdr, pk |-> 0]
RawReq(pk, s) == [kind |-> "raw", url |-> "media/info", status |-> s, hdr |-> "api", pk |-> pk]
HomeReq(s) == [kind |-> "home", url |-> "https://www.instagram.com/", status |-> s, hdr |-> "none", pk |-> 0]

\* _retry_with_fresh_url: media_pk from file_path.stem, media_type from the suffix
pk_of_stem(p) == p.pk
media_type_of_suffix(p) == IF p.ext = "mp4" THEN 2 ELSE 1

\* a loop over fresh_urls without the comparison to original_url
is_fresh_any(fresh_url, original_url) == TRUE

\* "if fresh_url != original_url": the fresh URLs that are requested
is_fresh(fresh_url, original_url) == fresh_url # original_url

\* index of the first URL at or after position from that the loop over
\* fresh_urls requests; 0 if there is none
RECURSIVE NextFresh(_, _, _)
NextFresh(fs, from, original_url) ==
    IF from > Len(fs) THEN 0
    ELSE IF is_fresh(fs[from], original_url) THEN from
    ELSE NextFresh(fs, from + 1, original_url)

(***************************************************************************)
(* Retry engine: InstagramDownloader._retry_download_with_backoff          *)
(***************************************************************************)
timeout_keywords == {"timeout", "timed out", "connection", "read timeout", "connectionerror", "httperror"}

\* a classification that knows connection errors only
is_timeout_error_narrow(e) == "connection" \in e.words

\* is_timeout_error = any(keyword in error_str for keyword in timeout_keywords)
is_timeout_error(e) == e.words \cap timeout_keywords # {}

RECURSIVE Pow2(_)
Pow2(n) == IF n = 0 THEN 1 ELSE 2 * Pow2(n - 1)

\* a base delay that does not grow
wait_time_base_flat(a) == 1

\* base part of wait_time = (2 ** attempt) + random.uniform(0.1, 1.0)
wait_time_base(a) == Pow2(a)

\* what random.uniform(0.1, 1.0) returns, in tenths of a second: the two
\* ends of the interval
Jitters == {1, 10}

\* wait_time, in tenths of a second
wait_time(a, jitter) == 10 * wait_time_base(a) + jitter

\* the bound test off by one: "if attempt < max_retries"
has_attempts_left_off_by_one(a, n) == a < n

\* "if attempt < max_retries - 1": attempts remain after attempt a
has_attempts_left(a, n) == a < n - 1

\* an except branch that gives up at the first timeout
retry_decision_impatient(e, a, n) == IF is_timeout_error(e) THEN "terminal" ELSE "fatal"

\* an except branch that never looks at the class of the error
retry_decision_unclassified(e, a, n) == IF has_attempts_left(a, n) THEN "sleep" ELSE "terminal"

\* the except branch of the loop for exception e on attempt a: sleep and
\* continue, raise the terminal timeout, or re-raise e
retry_decision(e, a, n) ==
    IF is_timeout_error(e)
    THEN IF has_attempts_left(a, n) THEN "sleep" ELSE "terminal"
    ELSE "fatal"

\* outcome of a finished call of the retry engine
NoOutcome == [kind |-> "none", err |-> NoErr, n |-> 0]

NoResult == [ok |-> FALSE, msg |-> ""]

VARIABLES
    pc,              \* position of the worker
    calls,           \* download_single_reel calls started so far
    max_retries,     \* parameter of the running retry engine call
    attempt,         \* loop variable of the retry engine (zero based)
    opLog,           \* outcome of every invocation of download_func, in order
    sleeps,          \* wait_time of every sleep of the retry engine, in order
    retry_out,       \* how the retry engine call ended
    files,           \* paths of the media files that exist
    flags,           \* the .processing_<stem>.json files that exist
    url,             \* argument url of the running call
    download_folder, \* argument download_folder of the running call
    media_pk,        \* media_pk extracted from the url
    media_info,      \* media_info, resolved or minimal
    use_fallback,    \* use_fallback
    download_path,   \* download_path
    result,          \* the (bool, message) pair the call returned
    metaErr,         \* the exception client.media_info raised, if any
    reconstructs,    \* calls of _create_minimal_media_info in this call
    probeCalls,      \* download calls made by the media type probe
    sessionOps,      \* session status checks and setups in this call
    flagLog,         \* outcome of every flag write of this call
    lastWrite,       \* outcome of the last _write_downloaded_file of this call
    raised,          \* the exception that reached the outer except of this call
    escaped,         \* an exception left download_single_reel
    files0,          \* files when the call started
    flags0,          \* flags when the call started
    download_urls,   \* candidate URLs extracted by _fallback_download_direct
    idx,             \* position of _download_with_url_fallbacks in download_urls
    attempts,        \* finished transfers of the loop: url, first status, result
    xlog,            \* requests of the running or last transfer, in order
    fresh_urls,      \* fresh_urls of the running 404 escalation
    fidx,            \* position of the escalation in fresh_urls
    rawFetches,      \* calls of _get_raw_media_data in this call
    hash_cache,      \* ImageHasher.hash_cache: fingerprint -> stored data
    inbox,           \* the image files in the input folder
    records,         \* rows inserted into content_items, in order
    lastCall,        \* what the last process_single_file call did
    clock,           \* process_single_file calls so far (datetime.now() advances)
    dropped,         \* files that arrived so far
    folders_to_check, \* folders the running Drain pass has still to scan
    flag_files,      \* flag files globbed in the current folder, not yet examined
    drainFound,      \* flag files the running or last Drain pass globbed
    drainLog,        \* what that pass did with each flag it examined, in order
    passes,          \* Drain passes started so far
    settled,         \* a Drain pass has completed and nothing was enqueued since
    repeat,          \* the running or last pass started in a settled state
    batched,         \* files process_batch handed to process_single_file so far
    mem,             \* hash_cache of every live ImageHasher instance
    cache_file,      \* content of hash_cache.json
    wpc,             \* position of every instance: idle, or before save_hash_cache
    inserted,        \* fingerprint -> highest duplicate_count written since the last reset
    cacheOps,        \* store_hash and increment_duplicate_count calls so far
    raw_doc,         \* argument raw_data of the running extraction
    raw_type,        \* argument media_type of the running extraction
    all_urls,        \* what the extraction returned
    session_path,    \* content of instagram_session.json, or that it is absent
    session_path0,   \* that content when the running setup_session call started
    setups,          \* setup_session calls started so far
    logins,          \* client.login calls of the running setup_session call
    verified,        \* how loading and verifying the persisted session ended
    login_out,       \* how client.login ended in the running call
    setup_result,    \* the (bool, message) pair setup_session returned
    opened_flags,    \* flag files opened for writing and not yet written
    epc,             \* position of the request thread in _trigger_content_processing
    dpc,             \* position of every queue thread in process_instagram_queue
    dlist,           \* flag_files of every queue thread, not yet examined
    dcur,            \* flag_data every queue thread has loaded
    inproc,          \* workers inside process_single_file for the queued file
    handed,          \* process_single_file calls for the queued file since its flag was written
    flag_state,      \* the flag of the queued file: none, written, or loaded by a queue thread
    lock_file,       \* backup_in_progress.lock exists
    tpc,             \* position of every backup thread
    created,         \* backup threads whose create_backup_lock wrote the lock file
    skipped,         \* backup threads that found the lock file and skipped the backup
    unlinked         \* backup threads whose remove_backup_lock unlinked the lock file

retryVars == <<max_retries, attempt, opLog, sleeps, retry_out>>
fsVars == <<files, flags>>
argVars == <<url, download_folder, files0, flags0>>
metaVars == <<media_pk, media_info, use_fallback, metaErr, reconstructs, probeCalls, sessionOps>>
excVars == <<raised, escaped>>
callVars == <<argVars, metaVars, download_path, result, flagLog, lastWrite, excVars>>
fbVars == <<download_urls, idx, attempts, xlog, fresh_urls, fidx, rawFetches>>

cacheVars == <<mem, cache_file, wpc, inserted, cacheOps>>

dedupVars == <<hash_cache, inbox, records, lastCall, clock, dropped, cacheVars>>

queueVars == <<folders_to_check, flag_files, drainFound, drainLog, passes, settled, repeat, batched>>

extractVars == <<raw_doc, raw_type, all_urls>>

sessionVars == <<session_path, session_path0, setups, logins, verified, login_out, setup_result>>

workerVars == <<opened_flags, epc, dpc, dlist, dcur, inproc, handed, flag_state>>

backupVars == <<lock_file, tpc, created, skipped, unlinked>>

vars == <<pc, calls, retryVars, fsVars, callVars, fbVars, dedupVars, queueVars, extractVars, sessionVars, workerVars, backupVars>>

\* what download_func() does on one invocation: return, or raise
OpOutcomes == {Returned} \cup Errors

\* download_func of the running engine call: a download call of the client
\* inside download_single_reel; any callable, one that ends in the engine's
\* own terminal error included, when the engine is called on its own
EngineOutcomes == IF calls = 0 THEN OpOutcomes \cup {ErrNested} ELSE OpOutcomes

\* entry of _retry_download_with_backoff(download_func, n): "for attempt in
\* range(max_retries)" runs no iteration when n <= 0 and falls to the
\* "Unexpected retry loop exit" raise
RetryEnter(n) ==
    /\ max_retries' = n
    /\ attempt' = 0
    /\ opLog' = <<>>
    /\ sleeps' = <<>>
    /\ IF n > 0
       THEN /\ retry_out' = NoOutcome
            /\ pc' = "retry"
       ELSE /\ retry_out' = [kind |-> "unexpected", err |-> NoErr, n |-> n]
            /\ pc' = "retry_ret"

\* one iteration of the for loop: invoke download_func; on an exception
\* sleep and continue, or raise
RetryAttempt ==
    /\ pc = "retry"
    /\ attempt < max_retries
    /\ \E o \in EngineOutcomes :
        /\ opLog' = Append(opLog, o)
        /\ IF o = Returned
           THEN /\ retry_out' = [kind |-> "result", err |-> NoErr, n |-> max_retries]
                /\ pc' = "retry_ret"
                /\ UNCHANGED <<attempt, sleeps>>
           ELSE LET d == retry_decision(o, attempt, max_retries)
                IN  IF d = "sleep"
                    THEN /\ \E jitter \in Jitters : sleeps' = Append(sleeps, wait_time(attempt, jitter))
                         /\ attempt' = attempt + 1
                         /\ IF attempt + 1 < max_retries
                            THEN /\ pc' = "retry"
                                 /\ retry_out' = retry_out
                            ELSE /\ pc' = "retry_ret"
                                 /\ retry_out' = [kind |-> "unexpected", err |-> NoErr, n |-> max_retries]
                    ELSE /\ retry_out' = [kind |-> d, err |-> o, n |-> max_retries]
                         /\ pc' = "retry_ret"
                         /\ UNCHANGED <<attempt, sleeps>>
    /\ UNCHANGED <<max_retries, calls, fsVars, callVars, fbVars>>
    /\ UNCHANGED <<dedupVars, queueVars>>
    /\ UNCHANGED <<extractVars, sessionVars, workerVars, backupVars>>

\* str(e) of what the engine raised
RetryErrorText(out) ==
    IF out.kind = "terminal" THEN "Download timeout after " \o ToString(out.n) \o " retries: " \o out.err.msg
    ELSE IF out.kind = "fatal" THEN out.err.msg
    ELSE "Unexpected retry loop exit"

\* the exception the engine raised: the new Exception of the terminal
\* timeout, whose text holds "timeout" and the text of the last error, the
\* re-raised error of the fatal path, or the Exception after the loop
RetryRaised(out) ==
    IF out.kind = "terminal"
    THEN [type |-> "Exception", msg |-> RetryErrorText(out), words |-> out.err.words \cup {"timeout"}]
    ELSE IF out.kind = "fatal" THEN out.err
    ELSE [type |-> "Exception", msg |-> RetryErrorText(out), words |-> {}]

\* a caller hands an operation and max_retries to the engine
RetryCall ==
    /\ pc = "r_idle"
    /\ \E n \in 0..MaxRetries : RetryEnter(n)
    /\ UNCHANGED <<calls, fsVars, callVars, fbVars>>
    /\ UNCHANGED <<dedupVars, queueVars>>
    /\ UNCHANGED <<extractVars, sessionVars, workerVars, backupVars>>

\* the engine has returned or raised to that caller
RetryReturn ==
    /\ pc = "retry_ret"
    /\ pc' = "r_idle"
    /\ UNCHANGED <<calls, retryVars, fsVars, callVars, fbVars>>
    /\ UNCHANGED <<dedupVars, queueVars>>
    /\ UNCHANGED <<extractVars, sessionVars, workerVars, backupVars>>

(***************************************************************************)
(* Deduplication: ImageHasher and ContentProcessor.process_single_file     *)
(***************************************************************************)
\* the bytes an image file can hold
Contents == {"a", "b"}

\* calculate_image_hash: the digest of the bytes and of the perceptual bits,
\* which the bytes determine; if reading or decoding raises, the digest of
\* "error_" and the current timestamp t
calculate_image_hash(content, readable, t) ==
    IF readable THEN "md5:" \o content ELSE "md5:error_" \o ToString(t)

\* is_duplicate: "if image_hash in self.hash_cache"
is_duplicate(cache, image_hash) == image_hash \in DOMAIN cache

\* the analysis_data handed to store_hash: original_filename and the
\* category, confidence and summary of the analysis of the image
analysis_data(original_filename) ==
    [original_filename |-> original_filename, category |-> "Mixed", confidence |-> 1,
     summary |-> "summary of " \o original_filename]

\* store_hash whose assignment to self.hash_cache is lost
store_hash_lost(cache, image_hash, original_filename, t) == cache

\* store_hash: self.hash_cache[image_hash] = {**analysis_data, 'first_seen':
\* now, 'duplicate_count': 0}; the record has no last_seen yet (0 here);
\* a failure of save_hash_cache is only logged
store_hash(cache, image_hash, original_filename, t) ==
    [h \in DOMAIN cache \cup {image_hash} |->
        IF h = image_hash
        THEN [original_filename |-> original_filename,
              category |-> analysis_data(original_filename).category,
              confidence |-> analysis_data(original_filename).confidence,
              summary |-> analysis_data(original_filename).summary,
              first_seen |-> t, last_seen |-> 0, duplicate_count |-> 0]
        ELSE cache[h]]

\* an increment that is skipped
increment_duplicate_count_skipped(cache, image_hash, t) == cache

\* an increment that writes the record anew
increment_duplicate_count_rewrites(cache, image_hash, t) ==
    IF image_hash \in DOMAIN cache
    THEN [cache EXCEPT ![image_hash] = [@ EXCEPT !.duplicate_count = @ + 1, !.last_seen = t, !.first_seen = t]]
    ELSE cache

\* increment_duplicate_count: duplicate_count += 1 and last_seen = now
increment_duplicate_count(cache, image_hash, t) ==
    IF image_hash \in DOMAIN cache
    THEN [cache EXCEPT ![image_hash].duplicate_count = @ + 1, ![image_hash].last_seen = t]
    ELSE cache

\* a file <name> of the input folder
ImageFile(n, c) == [name |-> "img" \o ToString(n) \o ".jpg", content |-> c]

NoCall == [file |-> "", content |-> "", image_hash |-> "", cached |-> FALSE, analysed |-> FALSE,
           persisted |-> FALSE, removed |-> FALSE, ok |-> FALSE, msg |-> ""]

EmptyCache == [h \in {} |-> 0]

\* the ImageHasher instances of the application: the processor of the
\* running script and the processor a queue thread of an earlier run holds
Workers == {1, 2}

\* no instance is modelled
CacheIdle ==
    /\ mem = [w \in Workers |-> EmptyCache]
    /\ cache_file = EmptyCache
    /\ wpc = [w \in Workers |-> "idle"]
    /\ inserted = EmptyCache
    /\ cacheOps = 0

\* hash_cache.json and content_items as earlier runs can have left them:
\* nothing, or one image analysed and stored
PriorStores ==
    { [cache |-> EmptyCache, records |-> <<>>],
      [cache |-> store_hash(EmptyCache, calculate_image_hash("a", TRUE, 0), "img0.jpg", 0),
       records |-> << [image_hash |-> calculate_image_hash("a", TRUE, 0), original_filename |-> "img0.jpg"] >>] }

\* the stores as loaded at startup, the input folder empty
InitDedup ==
    /\ \E st \in PriorStores : hash_cache = st.cache /\ records = st.records
    /\ inbox = {}
    /\ lastCall = NoCall
    /\ clock = 0
    /\ dropped = 0
    /\ CacheIdle

\* the deduplication engine at rest, for behaviours that never call it
DedupIdle ==
    /\ hash_cache = EmptyCache
    /\ records = <<>>
    /\ inbox = {}
    /\ lastCall = NoCall
    /\ clock = 0
    /\ dropped = 0
    /\ CacheIdle

(***************************************************************************)
(* Processing flags: InstagramDownloader._trigger_content_processing       *)
(***************************************************************************)
\* the flag file .processing_<stem>.json in the folder of file_path
FlagFor(file_path, source_url, info) ==
    [folder |-> file_path.folder, stem |-> file_path.pk, file_path |-> file_path,
     source_url |-> source_url, media_pk |-> info.pk, media_type |-> info.media_type,
     processed |-> FALSE, processing_error |-> ""]

\* a write that adds a flag file beside the one of the same name
WriteFlag_adds(fl, nf) == fl \cup {nf}

\* open(flag_file, 'w'): the flag file of that name is replaced
WriteFlag(fl, nf) == {x \in fl : ~(x.folder = nf.folder /\ x.stem = nf.stem)} \cup {nf}

\* what an earlier run can have left on disk: nothing, or the reel of pk 1
\* in the video folder with its flag
PriorFile == PathOf(VIDEO_FOLDER, 1, "mp4")
PriorFlag == FlagFor(PriorFile, UrlReel.text, [pk |-> 1, media_type |-> 2, is_fallback |-> FALSE])
PriorDisks == { [files |-> {}, flags |-> {}], [files |-> {PriorFile}, flags |-> {PriorFlag}] }

\* the queue threads of the application: the thread started by the
\* running script and the thread an earlier run of the script started
Drainers == {1, 2}

\* the thread of process_batch
BatchWorker == 3

\* no flag_data loaded
NoFlag == [folder |-> "", stem |-> 0, file_path |-> NoPath, source_url |-> "", media_pk |-> 0,
           media_type |-> 0, processed |-> FALSE, processing_error |-> ""]

\* no request thread and no queue thread is modelled
WorkersIdle ==
    /\ opened_flags = {}
    /\ epc = "idle"
    /\ dpc = [d \in Drainers |-> "idle"]
    /\ dlist = [d \in Drainers |-> {}]
    /\ dcur = [d \in Drainers |-> NoFlag]
    /\ inproc = {}
    /\ handed = 0
    /\ flag_state = "none"

\* backup threads started in a behaviour
MaxBackupThreads == 2

BackupThreads == 1..MaxBackupThreads

\* no backup thread has been started and no lock file exists
BackupIdle ==
    /\ lock_file = FALSE
    /\ tpc = [t \in BackupThreads |-> "idle"]
    /\ created = {}
    /\ skipped = {}
    /\ unlinked = {}

\* no extraction has run
ExtractIdle ==
    /\ raw_doc = [items |-> <<>>]
    /\ raw_type = 0
    /\ all_urls = <<>>

\* no setup_session call has run and no session file is modelled
SessionIdle ==
    /\ session_path = "absent"
    /\ session_path0 = "absent"
    /\ setups = 0
    /\ logins = 0
    /\ verified = "none"
    /\ login_out = "none"
    /\ setup_result = NoResult

InitRest ==
    /\ calls = 0
    /\ max_retries = 0
    /\ attempt = 0
    /\ opLog = <<>>
    /\ sleeps = <<>>
    /\ retry_out = NoOutcome
    /\ url = NoUrl
    /\ download_folder = NoFolder
    /\ media_pk = 0
    /\ media_info = NoMedia
    /\ use_fallback = FALSE
    /\ download_path = NoPath
    /\ result = NoResult
    /\ metaErr = NoErr
    /\ reconstructs = 0
    /\ probeCalls = 0
    /\ sessionOps = 0
    /\ flagLog = <<>>
    /\ lastWrite = "none"
    /\ raised = NoErr
    /\ escaped = FALSE
    /\ files0 = {}
    /\ flags0 = {}
    /\ download_urls = <<>>
    /\ idx = 0
    /\ attempts = <<>>
    /\ xlog = <<>>
    /\ fresh_urls = <<>>
    /\ fidx = 0
    /\ rawFetches = 0
    /\ folders_to_check = <<>>
    /\ flag_files = {}
    /\ drainFound = {}
    /\ drainLog = <<>>
    /\ passes = 0
    /\ settled = FALSE
    /\ repeat = FALSE
    /\ batched = 0

\* the engine called on its own, with every max_retries
InitRetry ==
    /\ pc = "r_idle"
    /\ files = {}
    /\ flags = {}
    /\ InitRest
    /\ WorkersIdle
    /\ BackupIdle
    /\ ExtractIdle
    /\ SessionIdle
    /\ DedupIdle

NextRetry == RetryCall \/ RetryAttempt \/ RetryReturn

SpecRetry == InitRetry /\ [][NextRetry]_vars

(***************************************************************************)
(* InstagramDownloader.download_single_reel                                *)
(***************************************************************************)
\* "return False/True, message"
Finish(ok, msg) ==
    /\ result' = [ok |-> ok, msg |-> msg]
    /\ pc' = "done"

\* folder routing with the two configured folders exchanged
folder_path_of_swapped(mt, override) ==
    IF override # NoFolder THEN override
    ELSE IF mt = 2 THEN INPUT_FOLDER ELSE VIDEO_FOLDER

\* folder routing: download_folder if given, else by media type
folder_path_of(mt, override) ==
    IF override # NoFolder THEN override
    ELSE IF mt = 2 THEN VIDEO_FOLDER ELSE INPUT_FOLDER

ext_of(mt) == IF mt = 2 THEN "mp4" ELSE "jpg"

\* a workflow that ignores use_fallback
takes_fallback_path_never(uf) == FALSE

\* "if use_fallback:" the raw-protocol fallback downloader is used, else the
\* normal download workflow
takes_fallback_path(uf) == uf

\* an except clause that handles only the two classes it has messages for
caught_by_outer_selective(e) == "not found" \in e.words \/ "rate limit" \in e.words

\* "except Exception as e:" around the body of download_single_reel
caught_by_outer(e) == TRUE

\* the message the outer except returns for e
outer_except_message(e) ==
    IF "not found" \in e.words THEN "Content not found or private"
    ELSE IF "rate limit" \in e.words THEN "Rate limited. Please try again later."
    ELSE "Download failed: " \o e.msg

\* a step of the body raises e
Raise(e) ==
    /\ raised' = e
    /\ IF caught_by_outer(e)
       THEN /\ Finish(FALSE, outer_except_message(e))
            /\ escaped' = escaped
       ELSE /\ escaped' = TRUE
            /\ pc' = "done"
            /\ result' = result

\* a return that passes on the message of _fallback_download_direct
success_message_fallback(p) == "Downloaded via raw API fallback: " \o FileName(p)

\* return True, f"Downloaded: {download_path.name}"
success_message(p) == "Downloaded: " \o FileName(p)

\* the end of download_single_reel, fs being the files at that point:
\* "if download_path.exists()", _trigger_content_processing (whose failure
\* is only logged) and "return True"
VerifyAndQueue(fs) ==
    IF download_path \in fs
    THEN \E fw \in {"ok", "failed"} :
            /\ flagLog' = Append(flagLog, fw)
            /\ flags' = (IF fw = "ok" THEN WriteFlag(flags, FlagFor(download_path, url.text, media_info)) ELSE flags)
            /\ Finish(TRUE, success_message(download_path))
    ELSE /\ Finish(FALSE, "Download failed - file not found at expected location")
         /\ UNCHANGED <<flagLog, flags>>

\* entry of the handler, up to "if not self.client"; the previous call, if
\* any, has returned
Call ==
    /\ pc \in {"idle", "done"}
    /\ calls < MaxCalls
    /\ calls' = calls + 1
    /\ \E u \in InputUrls, f \in {NoFolder, OverrideFolder}, client \in BOOLEAN :
        /\ url' = u
        /\ download_folder' = f
        /\ IF client
           THEN pc' = "session" /\ result' = NoResult
           ELSE Finish(FALSE, "Instagram client not available")
    /\ media_pk' = 0
    /\ media_info' = NoMedia
    /\ use_fallback' = FALSE
    /\ download_path' = NoPath
    /\ metaErr' = NoErr
    /\ reconstructs' = 0
    /\ probeCalls' = 0
    /\ sessionOps' = 0
    /\ flagLog' = <<>>
    /\ lastWrite' = "none"
    /\ raised' = NoErr
    /\ escaped' = FALSE
    /\ files0' = files
    /\ flags0' = flags
    /\ download_urls' = <<>>
    /\ idx' = 0
    /\ attempts' = <<>>
    /\ xlog' = <<>>
    /\ fresh_urls' = <<>>
    /\ fidx' = 0
    /\ rawFetches' = 0
    /\ max_retries' = 0
    /\ attempt' = 0
    /\ opLog' = <<>>
    /\ sleeps' = <<>>
    /\ retry_out' = NoOutcome
    /\ UNCHANGED fsVars
    /\ UNCHANGED <<dedupVars, queueVars>>
    /\ UNCHANGED <<extractVars, sessionVars, workerVars, backupVars>>

\* get_session_status, and setup_session when the status is not "active"
EnsureSession ==
    /\ pc = "session"
    /\ \E s \in {"active", "setup_ok", "setup_failed"} :
        /\ sessionOps' = sessionOps + 1
        /\ IF s = "setup_failed"
           THEN Finish(FALSE, "Login required: Login failed")
           ELSE pc' = "validate" /\ result' = result
    /\ UNCHANGED <<calls, retryVars, fsVars, fbVars, argVars, download_path, flagLog, lastWrite, excVars>>
    /\ UNCHANGED <<media_pk, media_info, use_fallback, metaErr, reconstructs, probeCalls>>
    /\ UNCHANGED <<dedupVars, queueVars>>
    /\ UNCHANGED <<extractVars, sessionVars, workerVars, backupVars>>

\* _validate_instagram_url, then client.media_pk_from_url
ValidateUrl ==
    /\ pc = "validate"
    /\ IF ~validate_instagram_url(url)
       THEN /\ Finish(FALSE, "Invalid Instagram URL format")
            /\ media_pk' = media_pk
       ELSE IF url.pk = 0
       THEN /\ Finish(FALSE, "Failed to extract media PK from URL: invalid url")
            /\ media_pk' = media_pk
       ELSE /\ media_pk' = url.pk
            /\ pc' = "meta"
            /\ result' = result
    /\ UNCHANGED <<calls, retryVars, fsVars, fbVars, argVars, download_path, flagLog, lastWrite, excVars>>
    /\ UNCHANGED <<media_info, use_fallback, metaErr, reconstructs, probeCalls, sessionOps>>
    /\ UNCHANGED <<dedupVars, queueVars>>
    /\ UNCHANGED <<extractVars, sessionVars, workerVars, backupVars>>

\* what client.media_info(media_pk) does: return a media type, or raise
MetaOutcomes == {[err |-> NoErr, media_type |-> t] : t \in {1, 2}} \cup {[err |-> e, media_type |-> 0] : e \in Errors}

\* client.media_info with the ValidationError fallback, folder routing, and
\* the entry of the download workflow.  _create_minimal_media_info returns
\* None only if _detect_media_type_fallback raises, which catches its own
\* exceptions, so the reconstruction yields a descriptor
MediaInfo ==
    /\ pc = "meta"
    /\ \E r \in MetaOutcomes, probe \in ProbeOutcomes, mkdir \in {"ok", "raises"} :
        /\ metaErr' = r.err
        /\ IF r.err = NoErr \/ is_validation_error(r.err)
           THEN LET d  == detect_media_type_fallback(url, probe)
                    uf == r.err # NoErr
                    mt == IF uf THEN d.media_type ELSE r.media_type
                IN  /\ media_info' = [pk |-> media_pk, media_type |-> mt, is_fallback |-> uf]
                    /\ use_fallback' = uf
                    /\ reconstructs' = (IF uf THEN reconstructs + 1 ELSE reconstructs)
                    /\ probeCalls' = (IF uf THEN d.calls ELSE probeCalls)
                    /\ IF mkdir = "raises"
                       THEN /\ Raise(ErrOS)
                            /\ UNCHANGED <<download_path, retryVars>>
                       ELSE /\ result' = result
                            /\ UNCHANGED excVars
                            /\ IF takes_fallback_path(uf)
                               THEN /\ pc' = "fb_raw"
                                    /\ UNCHANGED <<download_path, retryVars>>
                               ELSE /\ download_path' = PathOf(folder_path_of(mt, download_folder), media_pk, ext_of(mt))
                                    /\ RetryEnter(INSTAGRAM_RETRY_ATTEMPTS)
           ELSE /\ mkdir = "ok"
                /\ Finish(FALSE, "Failed to get media info: " \o r.err.msg)
                /\ UNCHANGED <<media_info, use_fallback, download_path, reconstructs, probeCalls, retryVars, excVars>>
    /\ UNCHANGED <<calls, fsVars, fbVars, argVars, media_pk, sessionOps, flagLog, lastWrite>>
    /\ UNCHANGED <<dedupVars, queueVars>>
    /\ UNCHANGED <<extractVars, sessionVars, workerVars, backupVars>>

KindText == IF media_info.media_type = 2 THEN "Video" ELSE "Photo"

\* the normal workflow after _retry_download_with_backoff returned or raised:
\* locate and rename the downloaded file, or report the failure
StructDownloadReturn ==
    /\ pc = "retry_ret"
    /\ download_path' = download_path
    /\ IF retry_out.kind = "result"
       THEN \E found \in BOOLEAN :
               IF found
               THEN /\ files' = files \cup {download_path}
                    /\ VerifyAndQueue(files \cup {download_path})
               ELSE /\ Finish(FALSE, KindText \o " download completed but file not found")
                    /\ UNCHANGED <<files, flags, flagLog>>
       ELSE /\ Finish(FALSE, KindText \o " download failed: " \o RetryErrorText(retry_out))
            /\ UNCHANGED <<files, flags, flagLog>>
    /\ UNCHANGED <<calls, retryVars, fbVars, argVars, metaVars, lastWrite, excVars>>
    /\ UNCHANGED <<dedupVars, queueVars>>
    /\ UNCHANGED <<extractVars, sessionVars, workerVars, backupVars>>

(***************************************************************************)
(* InstagramDownloader._fallback_download_direct and the transfers         *)
(***************************************************************************)
\* _get_raw_media_data and _extract_all_download_urls_from_raw_data
FallbackFetchRaw ==
    /\ pc = "fb_raw"
    /\ rawFetches' = rawFetches + 1
    /\ \E r \in RawResponses :
        IF ~raw_data_returned(r)
        THEN /\ Finish(FALSE, "Fallback download failed: Failed to fetch raw media data")
             /\ UNCHANGED <<download_urls, idx, download_path>>
        ELSE LET us == extract_all_download_urls_from_raw_data(r.data, media_info.media_type)
             IN  IF us = <<>>
                 THEN /\ Finish(FALSE, "Fallback download failed: Could not extract any download URLs from raw data")
                      /\ UNCHANGED <<download_urls, idx, download_path>>
                 ELSE /\ download_urls' = us
                      /\ idx' = 1
                      /\ download_path' = PathOf(folder_path_of(media_info.media_type, download_folder), media_pk, ext_of(media_info.media_type))
                      /\ pc' = "fb_loop"
                      /\ result' = result
    /\ UNCHANGED <<calls, retryVars, fsVars, attempts, xlog, fresh_urls, fidx>>
    /\ UNCHANGED <<argVars, metaVars, flagLog, lastWrite, excVars>>
    /\ UNCHANGED <<dedupVars, queueVars>>
    /\ UNCHANGED <<extractVars, sessionVars, workerVars, backupVars>>

\* the files after _write_downloaded_file ended with outcome w
Written(w) == IF w \in {"ok", "partial"} THEN files \cup {download_path} ELSE files

\* a loop that does not return at a success
loop_returns_never(success) == FALSE

\* a loop that returns True whatever the transfer returned
loop_returns_always(success) == TRUE

\* "if success: return True" in the loop of _download_with_url_fallbacks
loop_returns(success) == success

\* _download_file_direct_http returns ok for download_urls[idx], with request
\* log xl and files fs.  On success _download_with_url_fallbacks returns True
\* and _fallback_download_direct tests "success and download_path.exists()";
\* after the last URL it returns False; else the loop goes on
TransferEnd(ok, xl, fs) ==
    /\ xlog' = xl
    /\ attempts' = Append(attempts, [url |-> download_urls[idx], first |-> xl[1].status, ok |-> ok])
    /\ IF loop_returns(ok)
       THEN IF download_path \in fs
            THEN VerifyAndQueue(fs)
            ELSE /\ Finish(FALSE, "Fallback download failed: Raw API download failed")
                 /\ UNCHANGED <<flags, flagLog>>
       ELSE /\ UNCHANGED <<flags, flagLog>>
            /\ IF idx < Len(download_urls)
               THEN pc' = "fb_next" /\ result' = result
               ELSE Finish(FALSE, "Fallback download failed: Raw API download failed")

\* the for loop of _download_with_url_fallbacks takes the next URL
LoopNext ==
    /\ pc = "fb_next"
    /\ idx' = idx + 1
    /\ xlog' = <<>>
    /\ fresh_urls' = <<>>
    /\ fidx' = 0
    /\ pc' = "fb_loop"
    /\ UNCHANGED <<calls, retryVars, fsVars, download_urls, attempts, rawFetches, callVars>>
    /\ UNCHANGED <<dedupVars, queueVars>>
    /\ UNCHANGED <<extractVars, sessionVars, workerVars, backupVars>>

\* _download_file_direct_http: what follows the status of the first response
direct_http_next(status) ==
    IF status = 200 THEN "write"
    ELSE IF status = 404 THEN "x404"
    ELSE IF status = 403 THEN "x403"
    ELSE "fail"

\* _retry_with_fresh_url: what follows the response to a fresh URL; an
\* exception leaves the loop
fresh_next(status) ==
    IF status = 200 THEN "write"
    ELSE IF status = Raised THEN "fail"
    ELSE "next"

\* an enhanced retry that dispatches on its response as the first request does
enhanced_next_escalating(status) == direct_http_next(status)

\* _retry_with_enhanced_auth: what follows the response to the retry
enhanced_next(status) == IF status = 200 THEN "write" ELSE "fail"

\* the step d that follows a response, the request log being xl: write the
\* body, fail the transfer, or escalate
Proceed(d, xl) ==
    IF d = "write"
    THEN \E w \in WriteOutcomes :
            /\ files' = Written(w)
            /\ lastWrite' = w
            /\ TransferEnd(w = "ok", xl, Written(w))
    ELSE IF d = "fail"
    THEN /\ TransferEnd(FALSE, xl, files)
         /\ UNCHANGED <<files, lastWrite>>
    ELSE /\ pc' = d
         /\ xlog' = xl
         /\ UNCHANGED <<files, lastWrite, attempts, result, flags, flagLog>>

\* the first request of _download_file_direct_http for download_urls[idx]
TransferStart ==
    /\ pc = "fb_loop"
    /\ idx <= Len(download_urls)
    /\ \E s \in Statuses :
        Proceed(direct_http_next(s), << CdnReq(download_urls[idx], s, "std") >>)
    /\ UNCHANGED <<calls, retryVars, download_urls, idx, fresh_urls, fidx, rawFetches>>
    /\ UNCHANGED <<argVars, metaVars, download_path, excVars>>
    /\ UNCHANGED <<dedupVars, queueVars>>
    /\ UNCHANGED <<extractVars, sessionVars, workerVars, backupVars>>

\* _retry_with_fresh_url: fetch fresh raw data and extract the fresh URLs
RefreshFetch ==
    /\ pc = "x404"
    /\ rawFetches' = rawFetches + 1
    /\ \E r \in RawResponses :
        LET xl == Append(xlog, RawReq(pk_of_stem(download_path), r.status))
            fs == IF raw_data_returned(r)
                  THEN extract_all_download_urls_from_raw_data(r.data, media_type_of_suffix(download_path))
                  ELSE <<>>
            j  == NextFresh(fs, 1, xlog[1].url)
        IN  /\ fresh_urls' = fs
            /\ fidx' = j
            /\ IF j = 0
               THEN Proceed("fail", xl)
               ELSE Proceed("x404_try", xl)
    /\ UNCHANGED <<calls, retryVars, download_urls, idx>>
    /\ UNCHANGED <<argVars, metaVars, download_path, excVars>>
    /\ UNCHANGED <<dedupVars, queueVars>>
    /\ UNCHANGED <<extractVars, sessionVars, workerVars, backupVars>>

\* _retry_with_fresh_url: request the next fresh URL
RefreshTry ==
    /\ pc = "x404_try"
    /\ \E s \in Statuses \cup {Raised} :
        LET xl == Append(xlog, CdnReq(fresh_urls[fidx], s, "std"))
            j  == NextFresh(fresh_urls, fidx + 1, xlog[1].url)
            d  == fresh_next(s)
        IN  IF d = "next" /\ j # 0
            THEN /\ fidx' = j
                 /\ Proceed("x404_try", xl)
            ELSE /\ fidx' = fidx
                 /\ Proceed(IF d = "next" THEN "fail" ELSE d, xl)
    /\ UNCHANGED <<calls, retryVars, download_urls, idx, fresh_urls, rawFetches>>
    /\ UNCHANGED <<argVars, metaVars, download_path, excVars>>
    /\ UNCHANGED <<dedupVars, queueVars>>
    /\ UNCHANGED <<extractVars, sessionVars, workerVars, backupVars>>

\* _retry_with_enhanced_auth: refresh the session state, request the same
\* URL with the enhanced headers
EnhancedAuth ==
    /\ pc = "x403"
    /\ \E h \in {200, Raised}, s \in Statuses :
        Proceed(enhanced_next(s), xlog \o << HomeReq(h), CdnReq(xlog[1].url, s, "enh") >>)
    /\ UNCHANGED <<calls, retryVars, download_urls, idx, fresh_urls, fidx, rawFetches>>
    /\ UNCHANGED <<argVars, metaVars, download_path, excVars>>
    /\ UNCHANGED <<dedupVars, queueVars>>
    /\ UNCHANGED <<extractVars, sessionVars, workerVars, backupVars>>

\* the disk is as an earlier run left it
Init ==
    /\ pc = "idle"
    /\ \E d \in PriorDisks : files = d.files /\ flags = d.flags
    /\ InitRest
    /\ WorkersIdle
    /\ BackupIdle
    /\ ExtractIdle
    /\ SessionIdle
    /\ DedupIdle

Next ==
    \/ Call
    \/ EnsureSession
    \/ ValidateUrl
    \/ MediaInfo
    \/ RetryAttempt
    \/ StructDownloadReturn
    \/ FallbackFetchRaw
    \/ TransferStart
    \/ RefreshFetch
    \/ RefreshTry
    \/ EnhancedAuth
    \/ LoopNext

Spec == Init /\ [][Next]_vars

(***************************************************************************)
(* ContentProcessor.process_single_file on the files of the input folder   *)
(***************************************************************************)
\* a file arrives in the input folder
DropFile ==
    /\ pc = "p_idle"
    /\ dropped < MaxFiles
    /\ dropped' = dropped + 1
    /\ \E c \in Contents : inbox' = inbox \cup {ImageFile(dropped + 1, c)}
    /\ UNCHANGED <<hash_cache, records, lastCall, clock>>
    /\ UNCHANGED <<pc, calls, retryVars, fsVars, callVars, fbVars, queueVars, cacheVars>>
    /\ UNCHANGED <<extractVars, sessionVars, workerVars, backupVars>>

\* what the collaborators of one call do: validate_file, the read in
\* calculate_image_hash, compress_image, analyze_content_hybrid,
\* save_analysis_only
ProcessOutcomes == [valid : BOOLEAN, readable : BOOLEAN, compressed : BOOLEAN, analysed : BOOLEAN, saved : BOOLEAN]

\* process_single_file(file_path) for the image file <name> holding
\* <content>, with process_image_with_hash: the effect on the hash cache,
\* the stored records and the record of the call; the caller's folder loses
\* the file when the call removed it.  os.remove of a file the call has
\* just read succeeds
ProcessImageFile(name, content, o) ==
    LET image_hash == calculate_image_hash(content, o.readable, clock + 1)
        call == [NoCall EXCEPT !.file = name, !.content = content]
        hashed == [call EXCEPT !.image_hash = image_hash, !.cached = image_hash \in DOMAIN hash_cache]
    IN  /\ clock' = clock + 1
        /\ IF ~o.valid
           THEN /\ lastCall' = [call EXCEPT !.msg = "Invalid file: corrupted"]
                /\ UNCHANGED <<hash_cache, records>>
           ELSE IF is_duplicate(hash_cache, image_hash)
           THEN /\ hash_cache' = increment_duplicate_count(hash_cache, image_hash, clock + 1)
                /\ lastCall' = [hashed EXCEPT !.removed = TRUE, !.ok = TRUE,
                                   !.msg = "Duplicate detected - skipped (original: " \o hash_cache[image_hash].original_filename \o ")"]
                /\ UNCHANGED records
           ELSE IF ~o.compressed
           THEN /\ lastCall' = [hashed EXCEPT !.msg = "Compression failed"]
                /\ UNCHANGED <<hash_cache, records>>
           ELSE IF ~o.analysed
           THEN /\ lastCall' = [hashed EXCEPT !.analysed = TRUE, !.msg = "Analysis failed"]
                /\ UNCHANGED <<hash_cache, records>>
           ELSE IF ~o.saved
           THEN /\ lastCall' = [hashed EXCEPT !.analysed = TRUE, !.msg = "Database save failed"]
                /\ UNCHANGED <<hash_cache, records>>
           ELSE /\ records' = Append(records, [image_hash |-> image_hash, original_filename |-> name])
                /\ hash_cache' = store_hash(hash_cache, image_hash, name, clock + 1)
                /\ lastCall' = [hashed EXCEPT !.analysed = TRUE, !.persisted = TRUE, !.removed = TRUE, !.ok = TRUE,
                                   !.msg = "Image processed - analysis saved (no image stored)"]

\* the worker calls process_single_file on a file of the input folder
ProcessSingleFile ==
    /\ pc = "p_idle"
    /\ clock < MaxProcess
    /\ \E f \in inbox, o \in ProcessOutcomes :
        /\ ProcessImageFile(f.name, f.content, o)
        /\ inbox' = (IF lastCall'.removed THEN inbox \ {f} ELSE inbox)
    /\ UNCHANGED dropped
    /\ UNCHANGED <<pc, calls, retryVars, fsVars, callVars, fbVars, queueVars, cacheVars>>
    /\ UNCHANGED <<extractVars, sessionVars, workerVars, backupVars>>

InitProcess ==
    /\ pc = "p_idle"
    /\ files = {}
    /\ flags = {}
    /\ InitRest
    /\ WorkersIdle
    /\ BackupIdle
    /\ ExtractIdle
    /\ SessionIdle
    /\ InitDedup

NextProcess == DropFile \/ ProcessSingleFile

SpecDedup == InitProcess /\ [][NextProcess]_vars

(***************************************************************************)
(* The processing queue: download_single_reel as the producer and          *)
(* ContentProcessor.process_instagram_queue (Drain) as the consumer        *)
(***************************************************************************)
\* the name of a flag file: its folder and the stem of the media file
FlagName(fl) == [folder |-> fl.folder, stem |-> fl.stem]

\* folder.glob('.processing_*.json')
glob(fl, folder) == {FlagName(x) : x \in {y \in fl : y.folder = folder}}

\* how a download_single_reel call ends, as the step machine above ends it:
\* nothing written; a rejected file left behind by the fallback writer; the
\* file verified and its flag written; the file verified and the flag write
\* failed
DownloadEnds == {"failed", "partial", "queued", "unflagged"}

DownloadEffect(fs, fl, u, mt, override, out) ==
    LET path == PathOf(folder_path_of(mt, override), u.pk, ext_of(mt))
        info == [pk |-> u.pk, media_type |-> mt, is_fallback |-> FALSE]
    IN  [files |-> IF out = "failed" THEN fs ELSE fs \cup {path},
         flags |-> IF out = "queued" THEN WriteFlag(fl, FlagFor(path, u.text, info)) ELSE fl,
         ok |-> out \in {"queued", "unflagged"}]

\* one whole download_single_reel call
DownloadAndQueue ==
    /\ pc = "q_idle"
    /\ calls < MaxDownloads
    /\ calls' = calls + 1
    /\ \E u \in {UrlReel, UrlPost, UrlTv}, mt \in {1, 2}, override \in {NoFolder, OverrideFolder}, out \in DownloadEnds :
        LET e == DownloadEffect(files, flags, u, mt, override, out)
        IN  /\ files' = e.files
            /\ flags' = e.flags
    /\ settled' = FALSE
    /\ drainFound' = {}
    /\ drainLog' = <<>>
    /\ UNCHANGED <<pc, folders_to_check, flag_files, passes, repeat, batched>>
    /\ UNCHANGED <<retryVars, callVars, fbVars, dedupVars>>
    /\ UNCHANGED <<extractVars, sessionVars, workerVars, backupVars>>

\* "for folder in folders_to_check: flag_files = list(folder.glob(...))":
\* the scan moves to the next folder that holds a flag file; the pass is
\* over when no folder is left
RECURSIVE NextScan(_, _)
NextScan(fl, folders) ==
    IF folders = <<>> THEN [flag_files |-> {}, folders |-> <<>>]
    ELSE IF glob(fl, Head(folders)) # {} THEN [flag_files |-> glob(fl, Head(folders)), folders |-> Tail(folders)]
    ELSE NextScan(fl, Tail(folders))

\* the loops advance: the rest of the folder's list, then the next folder
Advance(fl, rest, folders) ==
    LET scan == NextScan(fl, folders)
    IN  IF rest # {}
        THEN /\ flag_files' = rest
             /\ drainFound' = drainFound
             /\ UNCHANGED <<folders_to_check, pc, settled>>
        ELSE /\ flag_files' = scan.flag_files
             /\ drainFound' = drainFound \cup scan.flag_files
             /\ folders_to_check' = scan.folders
             /\ pc' = (IF scan.flag_files = {} THEN "q_idle" ELSE "q_drain")
             /\ settled' = (scan.flag_files = {})

\* process_instagram_queue is called
DrainStart ==
    /\ pc = "q_idle"
    /\ passes < MaxDrains
    /\ passes' = passes + 1
    /\ repeat' = settled
    /\ drainLog' = <<>>
    /\ LET scan == NextScan(flags, <<INPUT_FOLDER, VIDEO_FOLDER>>)
       IN  /\ flag_files' = scan.flag_files
           /\ drainFound' = scan.flag_files
           /\ folders_to_check' = scan.folders
           /\ pc' = (IF scan.flag_files = {} THEN "q_idle" ELSE "q_drain")
           /\ settled' = (scan.flag_files = {})
    /\ UNCHANGED <<calls, retryVars, fsVars, callVars, fbVars, dedupVars, batched>>
    /\ UNCHANGED <<extractVars, sessionVars, workerVars, backupVars>>

\* a decision that hands the file of an already processed flag to the processor
drain_decision_reprocess(readable, processed, exists) ==
    IF ~readable THEN "exception"
    ELSE IF ~exists THEN "stale"
    ELSE "process"

\* a decision that does not look for the file
drain_decision_blind(readable, processed, exists) ==
    IF ~readable THEN "exception"
    ELSE IF processed THEN "drop_processed"
    ELSE "process"

\* what the loop body does with one flag file: the load raises, the flag is
\* marked processed, the file is gone, or the file is processed
drain_decision(readable, processed, exists) ==
    IF ~readable THEN "exception"
    ELSE IF processed THEN "drop_processed"
    ELSE IF ~exists THEN "stale"
    ELSE "process"

\* a rewrite that records the error and leaves the flag unprocessed
failed_flag_unmarked(fl, message) == [fl EXCEPT !.processing_error = message]

\* "flag_data['processed'] = True; flag_data['processing_error'] = message"
failed_flag(fl, message) == [fl EXCEPT !.processed = TRUE, !.processing_error = message]

\* an except clause that ends the pass
continues_after_never(action) == action # "exception"

\* "except Exception as flag_error" sits inside the loop over flag_files:
\* the loop goes on with the next flag file
continues_after(action) == TRUE

\* what process_single_file(file_path) returns and whether it removed the
\* file, by the extension of the file: the return statements of
\* process_single_file, process_image_with_hash and process_video
Returned2(ok, removed, msg) == [ok |-> ok, removed |-> removed, msg |-> msg]

process_single_file_returns(ext) ==
    IF ext = "jpg"
    THEN { Returned2(FALSE, FALSE, "Invalid file: corrupted"),
           Returned2(TRUE, TRUE, "Duplicate detected - skipped (original: unknown)"),
           Returned2(FALSE, FALSE, "Compression failed"),
           Returned2(FALSE, FALSE, "Analysis failed"),
           Returned2(FALSE, FALSE, "Database save failed"),
           Returned2(TRUE, TRUE, "Image processed - analysis saved (no image stored)") }
    ELSE { Returned2(FALSE, FALSE, "Invalid file: corrupted"),
           Returned2(FALSE, FALSE, "No frames could be extracted and no audio was found."),
           Returned2(FALSE, FALSE, "Saving video analysis failed."),
           Returned2(TRUE, TRUE, "Video processed (1 frames, audio transcribed)") }

\* what the pass did with one flag file
DrainEntry(n, readable, fl, exists, action, called, ok, msg) ==
    [flag |-> n, readable |-> readable, processed |-> readable /\ fl.processed,
     processing_error |-> IF readable THEN fl.processing_error ELSE "",
     file_path |-> fl.file_path, exists |-> exists, action |-> action, called |-> called, ok |-> ok, msg |-> msg]

\* one iteration of "for flag_file in flag_files".  The order of the glob
\* is the file system's.  A flag file can be unreadable, or lack file_path;
\* unlinking a flag and rewriting one that was just read succeed
DrainItem ==
    /\ pc = "q_drain"
    /\ \E n \in flag_files, r \in BOOLEAN :
        LET cur == {x \in flags : FlagName(x) = n}
            fl == IF cur = {} THEN PriorFlag ELSE CHOOSE x \in cur : TRUE
            readable == r /\ cur # {}
            exists == fl.file_path \in files
            action == drain_decision(readable, fl.processed, exists)
            rest == IF continues_after(action) THEN flag_files \ {n} ELSE {}
            folders == IF continues_after(action) THEN folders_to_check ELSE <<>>
        IN  IF action # "process"
            THEN /\ flags' = flags \ cur
                 /\ drainLog' = Append(drainLog, DrainEntry(n, readable, fl, exists, action, FALSE, FALSE, ""))
                 /\ Advance(flags', rest, folders)
                 /\ UNCHANGED files
            ELSE \E ret \in process_single_file_returns(fl.file_path.ext) :
                 /\ files' = (IF ret.removed THEN files \ {fl.file_path} ELSE files)
                 /\ flags' = (IF ret.ok THEN flags \ cur
                              ELSE WriteFlag(flags, failed_flag(fl, ret.msg)))
                 /\ drainLog' = Append(drainLog, DrainEntry(n, readable, fl, exists, action, TRUE, ret.ok, ret.msg))
                 /\ Advance(flags', rest, folders)
    /\ UNCHANGED <<calls, retryVars, callVars, fbVars, dedupVars, passes, repeat, batched>>
    /\ UNCHANGED <<extractVars, sessionVars, workerVars, backupVars>>

\* one iteration of the loop of process_batch: a file of the input folders
\* is handed to process_single_file, whatever flag refers to it
BatchProcessFile ==
    /\ pc = "q_idle"
    /\ batched < MaxBatch
    /\ batched' = batched + 1
    /\ \E f \in {x \in files : x.folder \in {INPUT_FOLDER, VIDEO_FOLDER}} :
        \E ret \in process_single_file_returns(f.ext) :
            files' = (IF ret.removed THEN files \ {f} ELSE files)
    /\ UNCHANGED <<pc, calls, flags, retryVars, callVars, fbVars, dedupVars>>
    /\ UNCHANGED <<extractVars, sessionVars, workerVars, backupVars>>
    /\ UNCHANGED <<folders_to_check, flag_files, drainFound, drainLog, passes, settled, repeat>>

\* the application at rest between reruns, the disk as an earlier run left it
InitQueue ==
    /\ pc = "q_idle"
    /\ \E d \in PriorDisks : files = d.files /\ flags = d.flags
    /\ InitRest
    /\ WorkersIdle
    /\ BackupIdle
    /\ ExtractIdle
    /\ SessionIdle
    /\ DedupIdle

NextQueue == DownloadAndQueue \/ DrainStart \/ DrainItem \/ BatchProcessFile

SpecQueue == InitQueue /\ [][NextQueue]_vars

(***************************************************************************)
(* hash_cache.json under several ImageHasher instances.  main() builds a   *)
(* ContentProcessor, and with it an ImageHasher that loads the file, on    *)
(* every run of the script, and starts a daemon thread that drains the     *)
(* queue with that processor; the thread of an earlier run can still be    *)
(* working when the next run has built its own processor                   *)
(***************************************************************************)
\* the fingerprints the instances meet
Hashes == {calculate_image_hash(c, TRUE, 0) : c \in Contents}

\* the file name under which instance w stores a fingerprint
StoredName(w) == "img" \o ToString(w) \o ".jpg"

\* the highest duplicate_count written for h since the last reset
Noted(h, n) ==
    [g \in DOMAIN inserted \cup {h} |->
        IF g = h THEN (IF h \in DOMAIN inserted /\ inserted[h] > n THEN inserted[h] ELSE n)
        ELSE inserted[g]]

\* save_hash_cache: json.dump(self.hash_cache, f) rewrites the whole file
saved_file(file, cache) == cache

\* ImageHasher() in a new run of the script: load_hash_cache
LoadHashCache ==
    /\ pc = "c_idle"
    /\ \E w \in Workers :
        /\ wpc[w] = "idle"
        /\ mem[w] # cache_file
        /\ mem' = [mem EXCEPT ![w] = cache_file]
    /\ UNCHANGED <<cache_file, wpc, inserted, cacheOps>>
    /\ UNCHANGED <<hash_cache, inbox, records, lastCall, clock, dropped>>
    /\ UNCHANGED <<pc, calls, retryVars, fsVars, callVars, fbVars, queueVars>>
    /\ UNCHANGED <<extractVars, sessionVars, workerVars, backupVars>>

\* store_hash up to its call of save_hash_cache, called by
\* process_image_with_hash after a lookup miss of this instance
StoreHash ==
    /\ pc = "c_idle"
    /\ cacheOps < MaxCacheOps
    /\ cacheOps' = cacheOps + 1
    /\ \E w \in Workers, h \in Hashes :
        /\ wpc[w] = "idle"
        /\ ~is_duplicate(mem[w], h)
        /\ mem' = [mem EXCEPT ![w] = store_hash(mem[w], h, StoredName(w), cacheOps + 1)]
        /\ wpc' = [wpc EXCEPT ![w] = "save"]
        /\ inserted' = Noted(h, 0)
    /\ UNCHANGED cache_file
    /\ UNCHANGED <<hash_cache, inbox, records, lastCall, clock, dropped>>
    /\ UNCHANGED <<pc, calls, retryVars, fsVars, callVars, fbVars, queueVars>>
    /\ UNCHANGED <<extractVars, sessionVars, workerVars, backupVars>>

\* increment_duplicate_count up to its call of save_hash_cache, called by
\* process_single_file after a lookup hit of this instance
IncrementDuplicateCount ==
    /\ pc = "c_idle"
    /\ cacheOps < MaxCacheOps
    /\ cacheOps' = cacheOps + 1
    /\ \E w \in Workers, h \in Hashes :
        /\ wpc[w] = "idle"
        /\ is_duplicate(mem[w], h)
        /\ mem' = [mem EXCEPT ![w] = increment_duplicate_count(mem[w], h, cacheOps + 1)]
        /\ wpc' = [wpc EXCEPT ![w] = "save"]
        /\ inserted' = Noted(h, mem'[w][h].duplicate_count)
    /\ UNCHANGED cache_file
    /\ UNCHANGED <<hash_cache, inbox, records, lastCall, clock, dropped>>
    /\ UNCHANGED <<pc, calls, retryVars, fsVars, callVars, fbVars, queueVars>>
    /\ UNCHANGED <<extractVars, sessionVars, workerVars, backupVars>>

\* save_hash_cache at the end of store_hash and increment_duplicate_count;
\* the write is taken to succeed
SaveHashCache ==
    /\ pc = "c_idle"
    /\ \E w \in Workers :
        /\ wpc[w] = "save"
        /\ cache_file' = saved_file(cache_file, mem[w])
        /\ wpc' = [wpc EXCEPT ![w] = "idle"]
    /\ UNCHANGED <<mem, inserted, cacheOps>>
    /\ UNCHANGED <<hash_cache, inbox, records, lastCall, clock, dropped>>
    /\ UNCHANGED <<pc, calls, retryVars, fsVars, callVars, fbVars, queueVars>>
    /\ UNCHANGED <<extractVars, sessionVars, workerVars, backupVars>>

\* the button "Clear Duplicate Cache" in the run whose processor is w:
\* the file is removed and the hash_cache of that processor emptied
ClearDuplicateCache ==
    /\ pc = "c_idle"
    /\ \E w \in Workers :
        /\ wpc[w] = "idle"
        /\ cache_file' = EmptyCache
        /\ mem' = [mem EXCEPT ![w] = EmptyCache]
    /\ inserted' = EmptyCache
    /\ UNCHANGED <<wpc, cacheOps>>
    /\ UNCHANGED <<hash_cache, inbox, records, lastCall, clock, dropped>>
    /\ UNCHANGED <<pc, calls, retryVars, fsVars, callVars, fbVars, queueVars>>
    /\ UNCHANGED <<extractVars, sessionVars, workerVars, backupVars>>

\* both instances have loaded the file an earlier run left
InitCache ==
    /\ pc = "c_idle"
    /\ files = {}
    /\ flags = {}
    /\ InitRest
    /\ WorkersIdle
    /\ BackupIdle
    /\ ExtractIdle
    /\ SessionIdle
    /\ hash_cache = EmptyCache
    /\ records = <<>>
    /\ inbox = {}
    /\ lastCall = NoCall
    /\ clock = 0
    /\ dropped = 0
    /\ \E st \in PriorStores :
        /\ cache_file = st.cache
        /\ mem = [w \in Workers |-> st.cache]
        /\ inserted = [h \in DOMAIN st.cache |-> st.cache[h].duplicate_count]
    /\ wpc = [w \in Workers |-> "idle"]
    /\ cacheOps = 0

NextCache == LoadHashCache \/ StoreHash \/ IncrementDuplicateCount \/ SaveHashCache \/ ClearDuplicateCache

SpecCache == InitCache /\ [][NextCache]_vars

(***************************************************************************)
(* InstagramDownloader._extract_all_download_urls_from_raw_data on its     *)
(* own: the raw documents are well-formed dictionaries, so the except      *)
(* branch of the function is not entered                                   *)
(***************************************************************************)
\* "video_versions" and "image_versions2.candidates" of the primary item as
\* upstream can list them: a version without url, and the same url under
\* two versions included
VersionLists == {<<>>, <<"u1">>, <<"u1", "u2">>, <<"u2", "u1">>, <<"u1", "u1">>, <<"", "u1">>}

\* the version lists of a carousel item
CarouselLists == {<<>>, <<"u1">>, <<"u3", "u2">>, <<"u3", "u3">>}

CarouselItems == [media_type : {1, 2}, video_versions : CarouselLists, image_candidates : CarouselLists]

\* "carousel_media": absent, or one or two items
CarouselMedia == {<<>>} \cup {<<c>> : c \in CarouselItems} \cup {<<c, d>> : c, d \in CarouselItems}

\* raw_data: no item, or a primary item
ExtractDocs ==
    {DocEmpty} \cup
    {[items |-> << [video_versions |-> v, image_candidates |-> i, carousel_media |-> c] >>] :
        v \in VersionLists, i \in VersionLists, c \in CarouselMedia}

\* media_type of the caller: photo, video
ExtractTypes == {1, 2}

\* the call of the function
ExtractUrls ==
    /\ pc = "e_idle"
    /\ all_urls' = extract_all_download_urls_from_raw_data(raw_doc, raw_type)
    /\ pc' = "e_done"
    /\ UNCHANGED <<raw_doc, raw_type>>
    /\ UNCHANGED <<calls, retryVars, fsVars, callVars, fbVars, dedupVars, queueVars, sessionVars, workerVars, backupVars>>

InitExtract ==
    /\ pc = "e_idle"
    /\ files = {}
    /\ flags = {}
    /\ InitRest
    /\ WorkersIdle
    /\ BackupIdle
    /\ DedupIdle
    /\ SessionIdle
    /\ raw_doc \in ExtractDocs
    /\ raw_type \in ExtractTypes
    /\ all_urls = <<>>

NextExtract == ExtractUrls

SpecExtract == InitExtract /\ [][NextExtract]_vars

(***************************************************************************)
(* InstagramDownloader.setup_session.  The content of the session file is  *)
(* a string: NoSession when the file is absent, Truncated when a failed    *)
(* dump left it unreadable, PriorSession for the file of an earlier run,   *)
(* and else the settings dumped by the call with that number               *)
(***************************************************************************)
\* setup_session calls in a behaviour
MaxSetups == 3

NoSession == "absent"
Truncated == "truncated"
PriorSession == "settings of an earlier run"

\* what client.login raises
ErrCheckpoint == [type |-> "ChallengeRequired", msg |-> "checkpoint_required", words |-> {"checkpoint_required"}]
ErrBadPassword == [type |-> "BadPassword", msg |-> "The password you entered is incorrect", words |-> {"password"}]
LoginErrors == {ErrCheckpoint, ErrRateLimit, ErrBadPassword, ErrConnection}

\* what json.dump raises inside client.dump_settings
ErrDump == [type |-> "OSError", msg |-> "[Errno 28] No space left on device", words |-> {"no space"}]

\* the message of the outer except of setup_session
setup_error_message(e) ==
    IF "checkpoint_required" \in e.words THEN "Login challenge required. Please login manually first."
    ELSE IF "rate limit" \in e.words THEN "Rate limited. Please try again later."
    ELSE IF "password" \in e.words THEN "Invalid credentials. Please check username/password."
    ELSE "Login failed: " \o e.msg

\* "return ..." of setup_session
SetupReturn(ok, msg) ==
    /\ setup_result' = [ok |-> ok, msg |-> msg]
    /\ pc' = "s_done"

\* a setup that logs in whatever the verification said
after_verification_relogin(v) == "login"

\* after load_settings and get_timeline_feed: "return True, ..." inside the
\* inner try, or the inner except, which continues to the fresh login
after_verification(v) == IF v = "ok" THEN "return" ELSE "login"

\* the settings dump_settings writes in call number n
dumped_settings(n) == "settings of call " \o ToString(n)

\* entry of setup_session up to "if session_path.exists()"
SetupSession ==
    /\ pc \in {"s_idle", "s_done"}
    /\ setups < MaxSetups
    /\ setups' = setups + 1
    /\ session_path0' = session_path
    /\ logins' = 0
    /\ verified' = "none"
    /\ login_out' = "none"
    /\ \E client \in BOOLEAN, credentials \in BOOLEAN :
        IF ~client THEN SetupReturn(FALSE, "Instagram client not available")
        ELSE IF ~credentials THEN SetupReturn(FALSE, "Instagram credentials not configured")
        ELSE /\ pc' = (IF session_path # NoSession THEN "s_load" ELSE "s_login")
             /\ setup_result' = NoResult
    /\ UNCHANGED session_path
    /\ UNCHANGED <<calls, retryVars, fsVars, callVars, fbVars, dedupVars, queueVars, extractVars, workerVars, backupVars>>

\* client.load_settings and client.get_timeline_feed on the existing file;
\* a truncated file cannot be loaded
LoadSession ==
    /\ pc = "s_load"
    /\ \E v \in {"ok", "load_raises", "verify_raises"} :
        /\ session_path = Truncated => v = "load_raises"
        /\ verified' = (IF v = "ok" THEN "ok" ELSE "failed")
        /\ IF after_verification(v) = "return"
           THEN SetupReturn(TRUE, "Session loaded successfully")
           ELSE pc' = "s_login" /\ setup_result' = setup_result
    /\ UNCHANGED <<session_path, session_path0, setups, logins, login_out>>
    /\ UNCHANGED <<calls, retryVars, fsVars, callVars, fbVars, dedupVars, queueVars, extractVars, workerVars, backupVars>>

\* client.login: returns, or raises into the outer except
FreshLogin ==
    /\ pc = "s_login"
    /\ logins' = logins + 1
    /\ \E o \in {Returned} \cup LoginErrors :
        /\ login_out' = (IF o = Returned THEN "ok" ELSE "raised")
        /\ IF o = Returned
           THEN pc' = "s_dump" /\ setup_result' = setup_result
           ELSE SetupReturn(FALSE, setup_error_message(o))
    /\ UNCHANGED <<session_path, session_path0, setups, verified>>
    /\ UNCHANGED <<calls, retryVars, fsVars, callVars, fbVars, dedupVars, queueVars, extractVars, workerVars, backupVars>>

\* client.dump_settings after the login: the file is written, or open
\* raises and the file is as before, or the write raises and the file is
\* left truncated; an exception reaches the outer except
DumpSettings ==
    /\ pc = "s_dump"
    /\ \E d \in {"ok", "open_raises", "write_raises"} :
        /\ session_path' = (IF d = "ok" THEN dumped_settings(setups)
                            ELSE IF d = "write_raises" THEN Truncated
                            ELSE session_path)
        /\ IF d = "ok"
           THEN SetupReturn(TRUE, "Login successful")
           ELSE SetupReturn(FALSE, setup_error_message(ErrDump))
    /\ UNCHANGED <<session_path0, setups, logins, verified, login_out>>
    /\ UNCHANGED <<calls, retryVars, fsVars, callVars, fbVars, dedupVars, queueVars, extractVars, workerVars, backupVars>>

\* the session file is absent or as an earlier run left it
InitSession ==
    /\ pc = "s_idle"
    /\ files = {}
    /\ flags = {}
    /\ InitRest
    /\ WorkersIdle
    /\ BackupIdle
    /\ DedupIdle
    /\ ExtractIdle
    /\ session_path \in {NoSession, PriorSession}
    /\ session_path0 = session_path
    /\ setups = 0
    /\ logins = 0
    /\ verified = "none"
    /\ login_out = "none"
    /\ setup_result = NoResult

NextSession == SetupSession \/ LoadSession \/ FreshLogin \/ DumpSettings

SpecSession == InitSession /\ [][NextSession]_vars

(***************************************************************************)
(* The queue under concurrency.  download_single_reel runs in the thread   *)
(* of the local server (or of the page), process_instagram_queue in the    *)
(* daemon thread that every run of main starts, process_batch in the page. *)
(* One media file is followed: the reel of pk 1 in the video folder.  The  *)
(* input folder holds no flag, so its glob yields nothing and the pass of  *)
(* a queue thread is its scan of the video folder.                         *)
(***************************************************************************)
QFile == PriorFile
QFlag == PriorFlag
QName == FlagName(PriorFlag)

\* the flag files a glob of the folder sees: written ones and ones that
\* are open for writing
FlagNames == {FlagName(x) : x \in flags} \cup opened_flags

\* flag_file.unlink(): the name is removed; where the platform refuses to
\* remove a file that is open (posix = FALSE) the call raises and the
\* caller's handler swallows it
unlink_flag(fl, op, n, posix) ==
    IF n \in op /\ ~posix THEN [flags |-> fl, opened |-> op]
    ELSE [flags |-> {x \in fl : FlagName(x) # n}, opened |-> op \ {n}]

workerRest == <<pc, retryVars, callVars, fbVars, dedupVars, extractVars, sessionVars, backupVars,
                folders_to_check, flag_files, drainFound, drainLog, settled, repeat>>

\* the download has written the file and download_path.exists() holds;
\* _trigger_content_processing reaches open(flag_file, 'w'), which creates
\* or truncates the flag file, or raises into the handler that only logs
OpenFlag ==
    /\ pc = "w_run"
    /\ epc = "idle"
    /\ calls < MaxDownloads
    /\ calls' = calls + 1
    /\ files' = files \cup {QFile}
    /\ \E opens \in BOOLEAN :
        IF opens
        THEN /\ flags' = {x \in flags : FlagName(x) # QName}
             /\ opened_flags' = opened_flags \cup {QName}
             /\ epc' = "opened"
             /\ handed' = 0
             /\ flag_state' = "written"
        ELSE UNCHANGED <<flags, opened_flags, epc, handed, flag_state>>
    /\ UNCHANGED <<dpc, dlist, dcur, inproc, passes, batched>>
    /\ UNCHANGED workerRest

\* json.dump and the close of the flag file: the content reaches the file
\* the thread opened, which is in the folder unless it was unlinked
DumpFlag ==
    /\ pc = "w_run"
    /\ epc = "opened"
    /\ epc' = "idle"
    /\ IF QName \in opened_flags
       THEN /\ flags' = WriteFlag(flags, QFlag)
            /\ opened_flags' = opened_flags \ {QName}
       ELSE UNCHANGED <<flags, opened_flags>>
    /\ UNCHANGED <<files, calls, dpc, dlist, dcur, inproc, handed, flag_state, passes, batched>>
    /\ UNCHANGED workerRest

\* a queue thread starts process_instagram_queue: folder.glob
DrainGlob ==
    /\ pc = "w_run"
    /\ passes < MaxDrains
    /\ passes' = passes + 1
    /\ \E d \in Drainers :
        /\ dpc[d] = "idle"
        /\ dlist' = [dlist EXCEPT ![d] = FlagNames]
        /\ dpc' = [dpc EXCEPT ![d] = IF FlagNames = {} THEN "idle" ELSE "scan"]
    /\ UNCHANGED <<files, flags, calls, opened_flags, epc, dcur, inproc, handed, flag_state, batched>>
    /\ UNCHANGED workerRest

\* the next iteration: open(flag_file, 'r') and json.load.  A flag file
\* that is gone or has no content yet raises, and the handler unlinks it
DrainLoad ==
    /\ pc = "w_run"
    /\ \E d \in Drainers, posix \in BOOLEAN :
        /\ dpc[d] = "scan"
        /\ \E n \in dlist[d] :
            LET cur == {x \in flags : FlagName(x) = n}
                rest == dlist[d] \ {n}
            IN  /\ dlist' = [dlist EXCEPT ![d] = rest]
                /\ IF cur = {}
                   THEN LET u == unlink_flag(flags, opened_flags, n, posix)
                        IN  /\ flags' = u.flags
                            /\ opened_flags' = u.opened
                            /\ dcur' = dcur
                            /\ dpc' = [dpc EXCEPT ![d] = IF rest = {} THEN "idle" ELSE "scan"]
                            /\ flag_state' = flag_state
                   ELSE /\ dcur' = [dcur EXCEPT ![d] = CHOOSE x \in cur : TRUE]
                        /\ dpc' = [dpc EXCEPT ![d] = "loaded"]
                        /\ flag_state' = "loaded"
                        /\ UNCHANGED <<flags, opened_flags>>
    /\ UNCHANGED <<files, calls, epc, inproc, handed, passes, batched>>
    /\ UNCHANGED workerRest

\* the tests on flag_data and file_path.exists(): the flag is unlinked, or
\* process_single_file is entered
DrainDecide ==
    /\ pc = "w_run"
    /\ \E d \in Drainers, posix \in BOOLEAN :
        /\ dpc[d] = "loaded"
        /\ LET action == drain_decision(TRUE, dcur[d].processed, dcur[d].file_path \in files)
               u == unlink_flag(flags, opened_flags, FlagName(dcur[d]), posix)
           IN  IF action = "process"
               THEN /\ dpc' = [dpc EXCEPT ![d] = "processing"]
                    /\ inproc' = inproc \cup {d}
                    /\ handed' = handed + 1
                    /\ UNCHANGED <<flags, opened_flags>>
               ELSE /\ flags' = u.flags
                    /\ opened_flags' = u.opened
                    /\ dpc' = [dpc EXCEPT ![d] = IF dlist[d] = {} THEN "idle" ELSE "scan"]
                    /\ UNCHANGED <<inproc, handed>>
    /\ UNCHANGED <<files, calls, epc, dlist, dcur, flag_state, passes, batched>>
    /\ UNCHANGED workerRest

\* process_single_file returns to the queue thread: the flag is unlinked
\* after a success and rewritten as processed after a failure
DrainFinish ==
    /\ pc = "w_run"
    /\ \E d \in Drainers, posix \in BOOLEAN :
        /\ dpc[d] = "processing"
        /\ \E ret \in process_single_file_returns(dcur[d].file_path.ext) :
            LET u == unlink_flag(flags, opened_flags, FlagName(dcur[d]), posix)
            IN  /\ files' = (IF ret.removed THEN files \ {dcur[d].file_path} ELSE files)
                /\ flags' = (IF ret.ok THEN u.flags ELSE WriteFlag(flags, failed_flag(dcur[d], ret.msg)))
                /\ opened_flags' = (IF ret.ok THEN u.opened ELSE opened_flags)
        /\ inproc' = inproc \ {d}
        /\ dpc' = [dpc EXCEPT ![d] = IF dlist[d] = {} THEN "idle" ELSE "scan"]
    /\ UNCHANGED <<calls, epc, dlist, dcur, handed, flag_state, passes, batched>>
    /\ UNCHANGED workerRest

\* process_batch hands the file to process_single_file
BatchEnter ==
    /\ pc = "w_run"
    /\ batched < MaxBatch
    /\ batched' = batched + 1
    /\ BatchWorker \notin inproc
    /\ QFile \in files
    /\ inproc' = inproc \cup {BatchWorker}
    /\ handed' = handed + 1
    /\ UNCHANGED <<files, flags, calls, opened_flags, epc, dpc, dlist, dcur, flag_state, passes>>
    /\ UNCHANGED workerRest

\* process_single_file returns to process_batch
BatchReturn ==
    /\ pc = "w_run"
    /\ BatchWorker \in inproc
    /\ inproc' = inproc \ {BatchWorker}
    /\ \E ret \in process_single_file_returns(QFile.ext) :
        files' = (IF ret.removed THEN files \ {QFile} ELSE files)
    /\ UNCHANGED <<flags, calls, opened_flags, epc, dpc, dlist, dcur, handed, flag_state, passes, batched>>
    /\ UNCHANGED workerRest

\* the threads at rest, the disk as an earlier run left it
InitWorkers ==
    /\ pc = "w_run"
    /\ \E d \in PriorDisks : files = d.files /\ flags = d.flags
    /\ InitRest
    /\ opened_flags = {}
    /\ epc = "idle"
    /\ dpc = [d \in Drainers |-> "idle"]
    /\ dlist = [d \in Drainers |-> {}]
    /\ dcur = [d \in Drainers |-> NoFlag]
    /\ inproc = {}
    /\ handed = 0
    /\ flag_state = (IF flags = {} THEN "none" ELSE "written")
    /\ BackupIdle
    /\ ExtractIdle
    /\ SessionIdle
    /\ DedupIdle

NextWorkers ==
    \/ OpenFlag
    \/ DumpFlag
    \/ DrainGlob
    \/ DrainLoad
    \/ DrainDecide
    \/ DrainFinish
    \/ BatchEnter
    \/ BatchReturn

SpecWorkers == InitWorkers /\ [][NextWorkers]_vars

(***************************************************************************)
(* BackupTrigger.trigger_backup_on_startup: every call starts a thread     *)
(* that runs backup_thread.  is_backup_needed_today and                    *)
(* perform_incremental_backup are taken by their outcomes.  Unlinking the  *)
(* lock file when it exists succeeds; creating it can fail, which          *)
(* create_backup_lock only logs.                                           *)
(***************************************************************************)
\* a backup_thread whose except clause were followed by no finally clause
after_backup_no_finally(out) == IF out = "raised" THEN "done" ELSE "remove"

\* try / except Exception / finally of backup_thread: remove_backup_lock
\* follows every outcome of perform_incremental_backup
after_backup(out) == "remove"

backupRest == <<pc, calls, retryVars, fsVars, callVars, fbVars, dedupVars, queueVars, extractVars, sessionVars, workerVars>>

\* trigger_backup_on_startup: backup_thread.start()
BackupStart ==
    /\ pc = "b_run"
    /\ \E t \in BackupThreads :
        /\ tpc[t] = "idle"
        /\ tpc' = [tpc EXCEPT ![t] = "check"]
    /\ UNCHANGED <<lock_file, created, skipped, unlinked>>
    /\ UNCHANGED backupRest

\* "if self.is_backup_running(): return"; the return inside the try runs
\* the finally clause
IsBackupRunning ==
    /\ pc = "b_run"
    /\ \E t \in BackupThreads :
        /\ tpc[t] = "check"
        /\ IF lock_file
           THEN /\ skipped' = skipped \cup {t}
                /\ tpc' = [tpc EXCEPT ![t] = "remove"]
           ELSE /\ skipped' = skipped
                /\ tpc' = [tpc EXCEPT ![t] = "needed"]
    /\ UNCHANGED <<lock_file, created, unlinked>>
    /\ UNCHANGED backupRest

\* "if not self.backup_system.is_backup_needed_today(): return"; the return
\* and an exception both lead to the finally clause
IsBackupNeeded ==
    /\ pc = "b_run"
    /\ \E t \in BackupThreads, needed \in {"yes", "no", "raised"} :
        /\ tpc[t] = "needed"
        /\ tpc' = [tpc EXCEPT ![t] = IF needed = "yes" THEN "create" ELSE "remove"]
    /\ UNCHANGED <<lock_file, created, skipped, unlinked>>
    /\ UNCHANGED backupRest

\* create_backup_lock: the lock file is written, or the write fails and
\* is logged; the backup follows in both cases
CreateBackupLock ==
    /\ pc = "b_run"
    /\ \E t \in BackupThreads, written \in BOOLEAN :
        /\ tpc[t] = "create"
        /\ tpc' = [tpc EXCEPT ![t] = "backup"]
        /\ lock_file' = (lock_file \/ written)
        /\ created' = (IF written THEN created \cup {t} ELSE created)
    /\ UNCHANGED <<skipped, unlinked>>
    /\ UNCHANGED backupRest

\* perform_incremental_backup returns True or False, or raises into the
\* except clause; the finally clause follows
PerformBackup ==
    /\ pc = "b_run"
    /\ \E t \in BackupThreads, out \in {"success", "failed", "raised"} :
        /\ tpc[t] = "backup"
        /\ tpc' = [tpc EXCEPT ![t] = after_backup(out)]
    /\ UNCHANGED <<lock_file, created, skipped, unlinked>>
    /\ UNCHANGED backupRest

\* remove_backup_lock: "if self.backup_lock_file.exists()"
RemoveLockTest ==
    /\ pc = "b_run"
    /\ \E t \in BackupThreads :
        /\ tpc[t] = "remove"
        /\ tpc' = [tpc EXCEPT ![t] = IF lock_file THEN "unlink" ELSE "done"]
    /\ UNCHANGED <<lock_file, created, skipped, unlinked>>
    /\ UNCHANGED backupRest

\* remove_backup_lock: "self.backup_lock_file.unlink()"; when another
\* thread has removed the file meanwhile the call raises and is logged
RemoveLockUnlink ==
    /\ pc = "b_run"
    /\ \E t \in BackupThreads :
        /\ tpc[t] = "unlink"
        /\ tpc' = [tpc EXCEPT ![t] = "done"]
        /\ unlinked' = (IF lock_file THEN unlinked \cup {t} ELSE unlinked)
    /\ lock_file' = FALSE
    /\ UNCHANGED <<created, skipped>>
    /\ UNCHANGED backupRest

\* no thread started; a lock file can be left from a killed process
InitBackup ==
    /\ pc = "b_run"
    /\ files = {}
    /\ flags = {}
    /\ InitRest
    /\ WorkersIdle
    /\ ExtractIdle
    /\ SessionIdle
    /\ DedupIdle
    /\ lock_file \in BOOLEAN
    /\ tpc = [t \in BackupThreads |-> "idle"]
    /\ created = {}
    /\ skipped = {}
    /\ unlinked = {}

NextBackup ==
    \/ BackupStart
    \/ IsBackupRunning
    \/ IsBackupNeeded
    \/ CreateBackupLock
    \/ PerformBackup
    \/ RemoveLockTest
    \/ RemoveLockUnlink

SpecBackup == InitBackup /\ [][NextBackup]_vars

(***************************************************************************)
(* Properties.                                                             *)
(***************************************************************************)
\* the exceptions of the timeout/connection class
RetryableClass == {ErrReadTimeout, ErrConnection, ErrNested}
\* the failures of the metadata call that are validation failures
ValidationClass == {ErrValidation, ErrValidationMsg}
\* the set of the elements of a sequence
Range(s) == {s[i] : i \in 1..Len(s)}
\* the last transfer of the fallback loop has ended
TransferOver == pc \in {"fb_next", "done"}

\* C1: over the process_single_file calls of one worker at most one record
\* is persisted per fingerprint, every persisted fingerprint is in the hash
\* cache, and a call on a file whose fingerprint is already in the cache
\* returns "Duplicate detected", removes the file, and neither analyses nor
\* persists it.
C1_AtMostOncePerFingerprint ==
    /\ \A i, j \in 1..Len(records) : records[i].image_hash = records[j].image_hash => i = j
    /\ \A i \in 1..Len(records) : records[i].image_hash \in DOMAIN hash_cache
    /\ lastCall.cached =>
        /\ lastCall.ok
        /\ lastCall.msg = "Duplicate detected - skipped (original: " \o hash_cache[lastCall.image_hash].original_filename \o ")"
        /\ lastCall.removed
        /\ \A f \in inbox : f.name # lastCall.file
        /\ ~lastCall.analysed
        /\ ~lastCall.persisted

\* a second file with the bytes of a file persisted in this run was processed
C1_Witness ==
    /\ lastCall.cached
    /\ lastCall.removed
    /\ \E i \in 1..Len(records) :
        /\ records[i].image_hash = lastCall.image_hash
        /\ records[i].original_filename \notin {"img0.jpg", lastCall.file}
    /\ hash_cache[lastCall.image_hash].duplicate_count >= 1

\* C2: the engine never invokes the operation more than max_retries times,
\* and when max_retries >= 1 and every invocation failed with a
\* timeout/connection error the call ends only after exactly max_retries
\* invocations, with the terminal "Download timeout after N retries" error.
C2_RetryTermination ==
    /\ Len(opLog) <= max_retries
    /\ (max_retries >= 1 /\ Range(opLog) \subseteq RetryableClass) =>
        /\ pc = "retry" => Len(opLog) < max_retries
        /\ pc # "retry" =>
            /\ Len(opLog) = max_retries
            /\ retry_out = [kind |-> "terminal", err |-> opLog[max_retries], n |-> max_retries]
            /\ RetryErrorText(retry_out) =
                 "Download timeout after " \o ToString(max_retries) \o " retries: " \o opLog[max_retries].msg

\* three retryable failures ended a call with max_retries = 3
C2_Witness ==
    /\ pc = "retry_ret"
    /\ max_retries = 3
    /\ opLog = <<ErrReadTimeout, ErrConnection, ErrReadTimeout>>
    /\ retry_out.kind = "terminal"

\* C3: an invocation that fails with an error outside the retryable class
\* is the last invocation of the call: the engine has ended, raising that
\* same error, and slept only after the failures before it.
C3_FatalShortCircuit ==
    \A i \in 1..Len(opLog) :
        opLog[i] \in Errors \ RetryableClass =>
            /\ i = Len(opLog)
            /\ pc # "retry"
            /\ retry_out = [kind |-> "fatal", err |-> opLog[i], n |-> max_retries]
            /\ RetryErrorText(retry_out) = opLog[i].msg
            /\ Len(sleeps) = i - 1

\* a fatal first failure with two attempts remaining
C3_Witness ==
    /\ pc = "retry_ret"
    /\ max_retries = 3
    /\ opLog = <<ErrNotFound>>
    /\ sleeps = <<>>
    /\ retry_out.kind = "fatal"

\* C4: _create_minimal_media_info has run only if client.media_info raised
\* a validation error, and after a not-found error it has not run and the
\* descriptor is not a reconstructed one.
C4_ReconstructOnlyOnValidation ==
    /\ reconstructs > 0 => metaErr \in ValidationClass
    /\ media_info.is_fallback => metaErr \in ValidationClass
    /\ metaErr = ErrNotFound =>
        /\ reconstructs = 0
        /\ ~use_fallback
        /\ media_info = NoMedia

\* a ClientError whose message names a validation failure was reconstructed
C4_Witness ==
    /\ metaErr = ErrValidationMsg
    /\ reconstructs = 1
    /\ media_info.is_fallback

\* C5: after a validation error of the metadata call the handler goes on
\* with a reconstructed descriptor to the raw-protocol fallback, the retry
\* engine and its structured download are never entered, and a file comes
\* only from the write of a direct transfer; after a resolved descriptor
\* the download is the structured call inside the retry engine, and no raw
\* fetch, transfer or direct write happens.  (If creating the folder raises,
\* the call ends before either download starts.)
C5_RouteBySource ==
    /\ metaErr \in ValidationClass =>
        /\ media_info.is_fallback /\ media_info.pk = media_pk
        /\ use_fallback
        /\ reconstructs = 1
        /\ result.msg # "Failed to get media info: " \o metaErr.msg
        /\ pc \in {"fb_raw", "fb_loop", "fb_next", "x404", "x404_try", "x403", "done"}
        /\ (pc # "fb_raw" /\ raised = NoErr) => rawFetches >= 1
        /\ opLog = <<>> /\ retry_out = NoOutcome /\ max_retries = 0
        /\ files # files0 => lastWrite # "none"
    /\ (metaErr = NoErr /\ media_info # NoMedia) =>
        /\ ~media_info.is_fallback
        /\ ~use_fallback
        /\ reconstructs = 0
        /\ pc \in {"retry", "retry_ret", "done"}
        /\ raised = NoErr => max_retries = INSTAGRAM_RETRY_ATTEMPTS
        /\ (pc # "retry" /\ raised = NoErr) => opLog # <<>>
        /\ rawFetches = 0 /\ attempts = <<>> /\ xlog = <<>> /\ lastWrite = "none"
        /\ files # files0 => retry_out.kind = "result"

\* a validation error was followed by a download through the fallback
C5_Witness ==
    /\ metaErr \in ValidationClass
    /\ pc = "done"
    /\ result.ok
    /\ lastWrite = "ok"
    /\ attempts # <<>>

\* C6: after any other error of the metadata call the handler has returned
\* (False, "Failed to get media info: ..."), with no structured download,
\* no probe, no raw fetch, no transfer, no reconstruction, no write, and the
\* files and flags are those of the start of the call.
C6_OtherMetadataErrorFails ==
    metaErr \in Errors \ ValidationClass =>
        /\ pc = "done"
        /\ result = [ok |-> FALSE, msg |-> "Failed to get media info: " \o metaErr.msg]
        /\ opLog = <<>> /\ retry_out = NoOutcome
        /\ probeCalls = 0
        /\ rawFetches = 0 /\ attempts = <<>> /\ xlog = <<>>
        /\ reconstructs = 0 /\ media_info = NoMedia
        /\ lastWrite = "none" /\ flagLog = <<>>
        /\ download_path = NoPath
        /\ files = files0 /\ flags = flags0

\* a throttled metadata call ended the handler, the disk of an earlier run untouched
C6_Witness ==
    /\ metaErr = ErrRateLimit
    /\ pc = "done"
    /\ files = {PriorFile}
    /\ flags = {PriorFlag}

\* C7: the k-th transfer of the fallback loop is for the k-th extracted URL,
\* a request of the running transfer starts from that URL, a successful
\* transfer is the last one and ends the handler, and with three candidates
\* of which the first two fail after a 404 or 403 and the third answers 200
\* the handler returns success after the one request to the third URL.
C7_SequentialFirstSuccess ==
    /\ Len(attempts) <= Len(download_urls)
    /\ \A k \in 1..Len(attempts) : attempts[k].url = download_urls[k]
    /\ pc \in {"fb_loop", "x404", "x404_try", "x403"} => Len(attempts) = idx - 1
    /\ TransferOver /\ attempts # <<>> => Len(attempts) = idx
    /\ xlog # <<>> => xlog[1] = CdnReq(download_urls[idx], xlog[1].status, "std")
    /\ \A k \in 1..Len(attempts) :
        attempts[k].ok => k = Len(attempts) /\ pc = "done"
    /\ ( /\ Len(download_urls) = 3
         /\ Len(attempts) = 3
         /\ \A k \in {1, 2} : attempts[k].first \in {403, 404} /\ ~attempts[k].ok
         /\ attempts[3].first = 200
         /\ attempts[3].ok ) =>
        /\ result.ok
        /\ idx = 3
        /\ xlog = << CdnReq(download_urls[3], 200, "std") >>
        /\ download_path \in files

\* the scenario: 404, then 403, then the third URL succeeded
C7_Witness ==
    /\ pc = "done"
    /\ Len(download_urls) = 3
    /\ Len(attempts) = 3
    /\ attempts[1].first = 404 /\ ~attempts[1].ok
    /\ attempts[2].first = 403 /\ ~attempts[2].ok
    /\ attempts[3].first = 200 /\ attempts[3].ok
    /\ result.ok

\* C8: in a transfer whose first response is 404 the second request is the
\* one raw metadata fetch, for media_pk; every later request is a plain
\* request to one of the fresh URLs, never to the URL that failed; a
\* non-success response leads only to the next fresh URL, never to another
\* raw fetch or to the 403 escalation; if no fresh URL differs from the
\* failed one nothing is requested and the transfer fails.
C8_FreshUrlEscalation ==
    (xlog # <<>> /\ xlog[1].status = 404) =>
        /\ pc \in {"x404", "x404_try", "fb_next", "done"}
        /\ (Len(xlog) = 1) <=> (pc = "x404")
        /\ Len(xlog) >= 2 => xlog[2] = RawReq(media_pk, xlog[2].status)
        /\ \A i \in 3..Len(xlog) :
            /\ xlog[i] = CdnReq(xlog[i].url, xlog[i].status, "std")
            /\ xlog[i].url # xlog[1].url
            /\ xlog[i].url \in Range(fresh_urls)
        /\ \A i \in 3..(Len(xlog) - 1) : xlog[i].status \in {403, 404, 500}
        /\ (Len(xlog) >= 2 /\ Range(fresh_urls) \subseteq {xlog[1].url}) =>
            /\ Len(xlog) = 2
            /\ TransferOver
            /\ ~attempts[Len(attempts)].ok
        /\ (TransferOver /\ xlog[Len(xlog)].status # 200) => ~attempts[Len(attempts)].ok

\* the refresh returned the failed URL and two others: the failed one was
\* skipped, the others answered 403 and 404, and the transfer failed
C8_Witness ==
    /\ TransferOver
    /\ Len(xlog) = 4
    /\ xlog[1].status = 404
    /\ xlog[1].url \in Range(fresh_urls)
    /\ xlog[3].status = 403
    /\ xlog[4].status = 404
    /\ ~attempts[Len(attempts)].ok

\* C9: in a transfer whose first response is 403 exactly two requests
\* follow: the homepage round-trip and one request to the same URL with the
\* enhanced headers; then the transfer is over, and it has failed unless
\* that request answered 200.
C9_EnhancedAuthOnce ==
    (xlog # <<>> /\ xlog[1].status = 403) =>
        /\ Len(xlog) \in {1, 3}
        /\ (Len(xlog) = 1) <=> (pc = "x403")
        /\ Len(xlog) = 3 =>
            /\ xlog[2] = HomeReq(xlog[2].status)
            /\ xlog[3] = CdnReq(xlog[1].url, xlog[3].status, "enh")
            /\ TransferOver
            /\ xlog[3].status # 200 => ~attempts[Len(attempts)].ok

\* the enhanced retry answered 404 and the transfer failed
C9_Witness ==
    /\ Len(xlog) = 3
    /\ xlog[1].status = 403
    /\ xlog[3].status = 404
    /\ TransferOver
    /\ ~attempts[Len(attempts)].ok

\* the scenario of C10: a /reel/ URL without a folder override, a validation
\* error, two extracted candidates, the first transfer answered 404 and
\* succeeded with the one fresh URL that is not an extracted candidate
C10_Scenario ==
    /\ pc = "done"
    /\ url.shape = "reel"
    /\ download_folder = NoFolder
    /\ metaErr \in ValidationClass
    /\ Len(download_urls) = 2
    /\ attempts # <<>>
    /\ attempts[1].first = 404
    /\ attempts[1].ok
    /\ Cardinality({j \in 1..Len(fresh_urls) : fresh_urls[j] # download_urls[1]}) = 1
    /\ Range(fresh_urls) \cap Range(download_urls) \subseteq {download_urls[1]}

C11_Original ==
    (pc = "done" /\ result.ok /\ use_fallback) =>
        result.msg = "Downloaded via raw API fallback: " \o FileName(download_path)

\* C11 amended: every success, through the fallback path or the structured
\* one, returns (True, "Downloaded: <name>") with the name of download_path;
\* the message of _fallback_download_direct is not returned.
C11_ReturnMessage ==
    (pc = "done" /\ result.ok) =>
        /\ result.msg = "Downloaded: " \o FileName(download_path)
        /\ result.msg # "Downloaded via raw API fallback: " \o FileName(download_path)
        /\ download_path # NoPath

\* a reel was downloaded through the fallback path
C11_Witness ==
    /\ pc = "done"
    /\ result.ok
    /\ use_fallback
    /\ url = UrlReel
    /\ download_folder = NoFolder
    /\ result.msg = "Downloaded: instagram_1.mp4"

\* C12: no exception leaves download_single_reel: a call that has ended has
\* returned a pair with a message; an exception that reaches the outer
\* except becomes (False, message); a failed flag write is only logged and
\* the call returns True.
C12_NoExceptionEscapes ==
    /\ ~escaped
    /\ (pc = "done" /\ calls > 0) => result.msg # ""
    /\ raised # NoErr =>
        /\ pc = "done"
        /\ result = [ok |-> FALSE, msg |-> "Download failed: " \o raised.msg]
    /\ (flagLog # <<>> /\ flagLog[Len(flagLog)] = "failed") => (pc = "done" /\ result.ok)

\* creating the download folder raised and the call returned failure
C12_Witness ==
    /\ raised = ErrOS
    /\ pc = "done"
    /\ ~result.ok
    /\ ~escaped

\* C13 as stated: whenever the call returns success the flag was written
\* once and a flag with processed = False for download_path exists in the
\* folder of the file.
C13_Original ==
    (pc = "done" /\ result.ok) =>
        /\ Len(flagLog) = 1
        /\ \E fl \in flags :
            /\ fl.file_path = download_path
            /\ fl.folder = download_path.folder
            /\ ~fl.processed

\* C14: a call that returned failure wrote no flag and left the flags as
\* they were; a flag is written only in a call that returns success, after
\* the file is at download_path through a successful write (fallback) or a
\* returned structured download; no step of the call touches the hash cache
\* or the stored records.
C14_FailureLeavesQueue ==
    /\ (pc = "done" /\ ~result.ok) => (flagLog = <<>> /\ flags = flags0)
    /\ (calls > 0 /\ flags # flags0) => flagLog = <<"ok">>
    /\ flagLog # <<>> =>
        /\ pc = "done"
        /\ result.ok
        /\ download_path \in files
        /\ IF use_fallback
           THEN lastWrite = "ok" /\ attempts[Len(attempts)].ok
           ELSE retry_out.kind = "result"
    /\ hash_cache = EmptyCache
    /\ records = <<>>

\* a fallback download failed leaving a partial file, the flags untouched
C14_Witness ==
    /\ pc = "done"
    /\ ~result.ok
    /\ lastWrite = "partial"
    /\ files # files0
    /\ flags0 # {}
    /\ flags = flags0

(***************************************************************************)
(* The processing queue                                                    *)
(***************************************************************************)
\* every way the step machine of download_single_reel ends is one of the
\* ends DownloadAndQueue draws from
DownloadEndsCover ==
    pc = "done" =>
        \E out \in DownloadEnds :
            LET e == DownloadEffect(files0, flags0, url, media_info.media_type, download_folder, out)
            IN  files = e.files /\ flags = e.flags /\ result.ok = e.ok

\* every way process_single_file ends on an image is one of the returns
\* the queue draws from
ProcessReturnsCover ==
    lastCall # NoCall =>
        \E ret \in process_single_file_returns("jpg") :
            /\ ret.ok = lastCall.ok
            /\ ret.removed = lastCall.removed
            /\ ~ret.ok => ret.msg = lastCall.msg

\* C15: after any sequence of DownloadAndQueue calls and Drain passes no
\* two flags carry the same name or refer to the same file, so every
\* downloaded file has at most one flag outstanding; a step that writes
\* the flag of a name that already had one leaves exactly one flag of that
\* name, the new one
C15_AtMostOneFlagPerFile ==
    \A a \in flags, b \in flags :
        (FlagName(a) = FlagName(b) \/ a.file_path = b.file_path) => a = b

\* a download of the pk whose flag an earlier run left has replaced that flag
C15_Witness ==
    /\ pc = "q_idle"
    /\ calls = 1
    /\ passes = 0
    /\ PriorFile \in files
    /\ PriorFlag \notin flags
    /\ \E fl \in flags : FlagName(fl) = FlagName(PriorFlag) /\ fl.file_path = PriorFile /\ fl.source_url = UrlTv.text

\* C16: a flag a Drain pass read with processed = false whose file did not
\* exist was discarded by that pass without a call of the processor, and
\* no flag of that name is left for a later pass
C16_StaleFlagDiscarded ==
    \A i \in DOMAIN drainLog :
        (drainLog[i].readable /\ ~drainLog[i].processed /\ ~drainLog[i].exists) =>
            /\ drainLog[i].action = "stale"
            /\ ~drainLog[i].called
            /\ \A fl \in flags : FlagName(fl) # drainLog[i].flag

\* a pass met the flag of a file that the batch processor had consumed
C16_Witness ==
    /\ pc = "q_idle"
    /\ settled
    /\ batched > 0
    /\ \E i \in DOMAIN drainLog :
        /\ drainLog[i].flag = FlagName(PriorFlag)
        /\ drainLog[i].readable /\ ~drainLog[i].processed /\ ~drainLog[i].exists
        /\ drainLog[i].action = "stale"
    /\ PriorFlag \notin flags

\* C17: in a Drain pass the processor is called only for a readable flag
\* with processed = false whose file exists; when processing succeeded the
\* flag is deleted; when it failed the flag is still there after the item,
\* rewritten with processed = true and the error; and a flag read with
\* processed = true is never handed to the processor
C17_ProcessOnceThenMark ==
    \A i \in DOMAIN drainLog :
        LET e == drainLog[i]
            left == {fl \in flags : FlagName(fl) = e.flag}
        IN  /\ e.called => (e.readable /\ ~e.processed /\ e.exists /\ e.action = "process")
            /\ (e.called /\ e.ok) => left = {}
            /\ (e.called /\ ~e.ok) =>
                  /\ left # {}
                  /\ \A fl \in left : fl.processed /\ fl.processing_error = e.msg /\ fl.file_path = e.file_path
            /\ (e.readable /\ e.processed) => ~e.called

\* a pass met the flag that an earlier pass had marked after a failure,
\* its file still there, and did not call the processor for it, and
\* processed the file of another flag with success
C17_Witness ==
    /\ pc = "q_idle"
    /\ passes = 2
    /\ \E i \in DOMAIN drainLog :
        /\ drainLog[i].readable /\ drainLog[i].processed /\ drainLog[i].exists
        /\ drainLog[i].processing_error # ""
        /\ ~drainLog[i].called
    /\ \E i \in DOMAIN drainLog :
        /\ drainLog[i].called /\ drainLog[i].ok
        /\ \A fl \in flags : FlagName(fl) # drainLog[i].flag

\* C18 as stated: a flag whose processing failed still exists, with its
\* recorded error, after every Drain pass that examined it: the pass in
\* which it failed and every later one
C18_Original ==
    \A i \in DOMAIN drainLog :
        LET e == drainLog[i]
            recorded == IF e.called THEN e.msg ELSE e.processing_error
        IN  ((e.called /\ ~e.ok) \/ (e.readable /\ e.processed /\ e.processing_error # "")) =>
                \E fl \in flags : FlagName(fl) = e.flag /\ fl.processing_error = recorded

\* C19: a Drain pass that started when a pass had completed and nothing
\* had been enqueued since performs no processing call
C19_SecondPassIdle ==
    repeat => \A i \in DOMAIN drainLog : ~drainLog[i].called

\* the pass after a completed pass met a flag and called nothing
C19_Witness ==
    /\ repeat
    /\ settled
    /\ pc = "q_idle"
    /\ drainLog # <<>>
    /\ \E i \in DOMAIN drainLog : drainLog[i].exists /\ ~drainLog[i].called

\* C20: every flag a Drain pass found is examined by that pass, once,
\* whatever happened to the flags before it: while the pass runs the
\* flags found are those examined and those still listed, and when it has
\* completed every flag found was loaded or discarded and no flag of the
\* two folders is left unprocessed
C20_EveryFlagExamined ==
    LET examined == {drainLog[i].flag : i \in DOMAIN drainLog}
    IN  /\ passes > 0 /\ (pc = "q_drain" \/ settled) =>
              /\ drainFound = examined \cup flag_files
              /\ examined \cap flag_files = {}
              /\ Cardinality(examined) = Len(drainLog)
        /\ \A i \in DOMAIN drainLog : drainLog[i].action \in {"exception", "drop_processed", "stale", "process"}
        /\ settled =>
              /\ flag_files = {}
              /\ \A fl \in flags : fl.folder \in {INPUT_FOLDER, VIDEO_FOLDER} => fl.processed

\* a pass went on to the next flag after an unreadable flag and after a
\* processing failure
C20_Witness ==
    /\ settled
    /\ Len(drainLog) = 2
    /\ \/ drainLog[1].action = "exception" /\ drainLog[2].called
       \/ drainLog[1].called /\ ~drainLog[1].ok /\ drainLog[2].action = "exception"

OthersUnchanged(before, after, image_hash) ==
    \A h \in DOMAIN before \ {image_hash} : h \in DOMAIN after /\ after[h] = before[h]

\* a lookup hit on image_hash changed duplicate_count and last_seen of that
\* record only, and deleted the file without analysing or persisting it
HitEffect(t) ==
    LET h == lastCall'.image_hash
    IN  /\ DOMAIN hash_cache' = DOMAIN hash_cache
        /\ hash_cache'[h] = [hash_cache[h] EXCEPT !.duplicate_count = @ + 1, !.last_seen = t]
        /\ hash_cache'[h].duplicate_count = hash_cache[h].duplicate_count + 1
        /\ hash_cache'[h].original_filename = hash_cache[h].original_filename
        /\ hash_cache'[h].category = hash_cache[h].category
        /\ hash_cache'[h].confidence = hash_cache[h].confidence
        /\ hash_cache'[h].summary = hash_cache[h].summary
        /\ hash_cache'[h].first_seen = hash_cache[h].first_seen
        /\ OthersUnchanged(hash_cache, hash_cache', h)
        /\ lastCall'.msg = "Duplicate detected - skipped (original: " \o hash_cache[h].original_filename \o ")"
        /\ lastCall'.removed /\ ~lastCall'.analysed /\ ~lastCall'.persisted
        /\ records' = records

\* a lookup miss inserted the record of image_hash with duplicate_count 0
InsertEffect ==
    LET h == lastCall'.image_hash
    IN  /\ h \notin DOMAIN hash_cache
        /\ DOMAIN hash_cache' = DOMAIN hash_cache \cup {h}
        /\ hash_cache'[h].duplicate_count = 0
        /\ hash_cache'[h].original_filename = lastCall'.file
        /\ OthersUnchanged(hash_cache, hash_cache', h)

\* C22 as stated: the hash cache changes only in a process_single_file call
\* that looked a fingerprint up; every lookup miss inserts a record with
\* duplicate_count 0 and every hit has the effect of HitEffect
C22_Original ==
    [][ /\ hash_cache' # hash_cache => (clock' = clock + 1 /\ lastCall'.image_hash # "")
        /\ (clock' = clock + 1 /\ lastCall'.image_hash # "") =>
              IF lastCall'.image_hash \in DOMAIN hash_cache THEN HitEffect(clock') ELSE InsertEffect ]_vars

\* C22: the hash cache changes only in a process_single_file call that
\* looked a fingerprint up; a lookup miss inserts a record with
\* duplicate_count 0 when the image was then compressed, analysed and its
\* analysis saved, and leaves the cache unchanged when one of these failed;
\* a hit changes duplicate_count (+1) and last_seen of that record only,
\* reports the stored original filename, and deletes the file without
\* analysing or persisting it
C22_StoreFrame ==
    [][ /\ hash_cache' # hash_cache => (clock' = clock + 1 /\ lastCall'.image_hash # "")
        /\ (clock' = clock + 1 /\ lastCall'.image_hash # "") =>
              IF lastCall'.image_hash \in DOMAIN hash_cache THEN HitEffect(clock')
              ELSE IF lastCall'.persisted THEN InsertEffect
              ELSE hash_cache' = hash_cache /\ ~lastCall'.ok ]_vars

\* the cache holds a record that was hit after another record was stored
C22_Witness ==
    /\ lastCall.cached
    /\ \E h \in DOMAIN hash_cache :
        /\ h = lastCall.image_hash
        /\ hash_cache[h].duplicate_count >= 1
        /\ hash_cache[h].last_seen = clock
        /\ hash_cache[h].first_seen < clock
    /\ \E g \in DOMAIN hash_cache : g # lastCall.image_hash /\ hash_cache[g].first_seen > 0

\* C23 as stated: when no instance is between a mutation and its save,
\* every fingerprint inserted since the last reset is in hash_cache.json
\* with a duplicate_count not below the highest it was given
C23_Original ==
    (pc = "c_idle" /\ \A w \in Workers : wpc[w] = "idle") =>
        \A h \in DOMAIN inserted :
            /\ h \in DOMAIN cache_file
            /\ cache_file[h].duplicate_count >= inserted[h]

\* C24 as stated: two consecutive process_single_file calls that computed
\* the fingerprint of the same file, which nothing changed in between,
\* computed the same fingerprint, whether or not the file could be read
\* and decoded
C24_Original ==
    [][ ( /\ clock' = clock + 1
          /\ lastCall'.file = lastCall.file
          /\ lastCall'.content = lastCall.content
          /\ lastCall.image_hash # ""
          /\ lastCall'.image_hash # "" )
        => lastCall'.image_hash = lastCall.image_hash ]_vars

(***************************************************************************)
(* The retry engine, continued                                             *)
(***************************************************************************)
\* the invocations of the running call after which the engine slept: those
\* that failed with a timeout/connection error with attempts remaining
SleptAfter == {i \in 1..Len(opLog) : opLog[i] \in RetryableClass /\ i < max_retries}

\* C25: the k-th sleep of a call (k counted from 0) follows the retryable
\* failure of attempt k and lasts 2^k seconds plus a jitter between 0.1 and
\* 1.0 seconds, so the base delays are strictly increasing; the engine has
\* slept exactly once after each retryable failure that had attempts
\* remaining, and never after the last attempt, a fatal error or a success
C25_BackoffSchedule ==
    /\ \A k \in 0..(Len(sleeps) - 1) :
        /\ sleeps[k + 1] - 10 * (2 ^ k) \in 1..10
        /\ k > 0 => sleeps[k + 1] > sleeps[k] /\ 2 ^ k > 2 ^ (k - 1)
        /\ k + 1 \in SleptAfter
    /\ Len(sleeps) = Cardinality(SleptAfter)
    /\ Len(sleeps) <= max_retries - 1 \/ max_retries = 0
    /\ \A i \in 1..Len(opLog) :
        (opLog[i] = Returned \/ opLog[i] \in Errors \ RetryableClass \/ i = max_retries) => i \notin SleptAfter /\ Len(sleeps) < i

\* two sleeps, of attempts 0 and 1, then the last attempt failed
C25_Witness ==
    /\ pc = "retry_ret"
    /\ max_retries = 3
    /\ Len(opLog) = 3
    /\ Len(sleeps) = 2
    /\ sleeps[1] \in 11..20
    /\ sleeps[2] \in 21..30
    /\ opLog[3] \in RetryableClass

\* the texts of the terminal timeout error
TerminalTexts ==
    {"Download timeout after " \o ToString(n) \o " retries: " \o e.msg : n \in 1..(MaxRetries + 1), e \in Errors \cup {ErrNested}}

\* C26: the error the engine raises after max_retries retryable failures
\* has the text "Download timeout after N retries: ...", which holds the
\* keyword "timeout"; an error raised through the fatal path has no timeout
\* keyword in its text, so it never has that text; and the terminal error
\* is raised only after max_retries invocations
C26_TerminalDistinguishable ==
    /\ retry_out.kind = "terminal" =>
        /\ pc # "retry"
        /\ Len(opLog) = max_retries
        /\ RetryRaised(retry_out).msg \in TerminalTexts
        /\ "timeout" \in RetryRaised(retry_out).words
    /\ retry_out.kind = "fatal" =>
        /\ RetryRaised(retry_out) = opLog[Len(opLog)]
        /\ RetryRaised(retry_out).msg \notin TerminalTexts
        /\ "timeout" \notin RetryRaised(retry_out).words

\* the operation raised the text of a terminal timeout on the first of
\* three attempts and a fatal error on the second
C26_Witness ==
    /\ pc = "retry_ret"
    /\ max_retries = 3
    /\ Len(opLog) = 2
    /\ opLog[1] = ErrNested
    /\ retry_out.kind = "fatal"

\* the structured download of a normally resolved descriptor has failed:
\* the engine raised through the fatal path or with its terminal timeout
StructuredFailed ==
    /\ pc = "done"
    /\ metaErr = NoErr
    /\ media_info # NoMedia
    /\ ~media_info.is_fallback
    /\ retry_out.kind \in {"fatal", "terminal"}

\* C27: when the descriptor was resolved normally and the structured
\* download fails, with a fatal error or with the retries exhausted, the
\* call attempts the raw-protocol fallback before it reports the failure
C27_Original ==
    StructuredFailed => rawFetches >= 1

\* C28: every network call goes through the retry engine, so a retryable
\* failure of the metadata fetch is retried with backoff: the call does
\* not end on it before the engine has slept at least once
C28_Original ==
    (pc = "done" /\ metaErr \in RetryableClass) => Len(sleeps) >= 1

\* the urls of a version list, in order, versions without url left out
RECURSIVE Truthy(_)
Truthy(us) ==
    IF us = <<>> THEN <<>>
    ELSE (IF Head(us) # "" THEN <<Head(us)>> ELSE <<>>) \o Truthy(Tail(us))

\* the version list of the target type in an item
VersionsOf(item, mt) == IF mt = 2 THEN item.video_versions ELSE item.image_candidates

\* the urls of the carousel items whose media type is the target, in order
RECURSIVE CarouselUpstream(_, _)
CarouselUpstream(cs, mt) ==
    IF cs = <<>> THEN <<>>
    ELSE (IF Head(cs).media_type = mt THEN Truthy(VersionsOf(Head(cs), mt)) ELSE <<>>)
         \o CarouselUpstream(Tail(cs), mt)

\* the upstream order: the primary variants, then the carousel
Upstream(doc, mt) ==
    IF doc.items = <<>> THEN <<>>
    ELSE Truthy(VersionsOf(doc.items[1], mt)) \o CarouselUpstream(doc.items[1].carousel_media, mt)

\* s without the later occurrences of a value
RECURSIVE FirstOccurrences(_, _)
FirstOccurrences(acc, s) ==
    IF s = <<>> THEN acc
    ELSE FirstOccurrences(IF InSeq(Head(s), acc) THEN acc ELSE Append(acc, Head(s)), Tail(s))

\* C29: the candidate list holds no URL twice, keeps the upstream order with
\* the primary variants before the carousel, and takes carousel URLs only
\* from items whose media type equals the target: it is the upstream list
\* with every later occurrence of a URL removed
C29_Original ==
    pc = "e_done" => all_urls = FirstOccurrences(<<>>, Upstream(raw_doc, raw_type))

\* C30: setup_session calls client.login at most once per call, and only
\* when no session file existed or the persisted session failed
\* verification; the session file differs from what the call found only
\* after client.login returned in this call, and is what the call found
\* when verification succeeded and when client.login raised
C30_SessionPersistence ==
    /\ logins <= 1
    /\ logins = 1 => (session_path0 = "absent" \/ verified = "failed")
    /\ session_path # session_path0 => login_out = "ok"
    /\ verified = "ok" => (logins = 0 /\ session_path = session_path0)
    /\ login_out = "raised" => session_path = session_path0

\* the second call found the session file the first call had written, could
\* not verify it, logged in once and replaced the file
C30_Witness ==
    /\ pc = "s_done"
    /\ setups = 2
    /\ session_path0 = "settings of call 1"
    /\ verified = "failed"
    /\ logins = 1
    /\ login_out = "ok"
    /\ session_path = "settings of call 2"
    /\ setup_result = [ok |-> TRUE, msg |-> "Login successful"]

\* C31: the URL is validated before a session is ensured: a call with a
\* client whose URL the validator rejects returns failure without any
\* session status check, session load or login
C31_Original ==
    (pc = "done" /\ url # NoUrl /\ ~validate_instagram_url(url)) => sessionOps = 0

\* the flag file of the queued file is in its folder, written or open
FlagPresent == QName \in FlagNames

\* C32: a flag the request thread writes for an existing downloaded file is
\* never lost to a running queue thread: while the file exists and has not
\* been handed to process_single_file since the write began, its flag file
\* is in the folder
C32_Original ==
    (flag_state # "none" /\ QFile \in files /\ handed = 0) => FlagPresent

\* C33: a file with an outstanding flag is never inside process_single_file
\* for two workers at once, and is not handed to it twice
C33_Original ==
    /\ Cardinality(inproc) <= 1
    /\ handed <= 1

\* C34: every processing flag a successful download created, with or
\* without an override folder, is examined by a Drain pass when passes keep
\* being run: once a pass has completed with nothing enqueued since, every
\* flag file on disk is one that pass examined
C34_Original ==
    settled => \A fl \in flags : \E i \in DOMAIN drainLog : drainLog[i].flag = FlagName(fl)

\* C35: for every configured max_retries the engine ends by returning the
\* result of the operation or by raising the fatal error or the terminal
\* timeout: the raise after the loop is never reached, and the operation
\* has been invoked at least once when the engine ends
C35_Original ==
    /\ retry_out.kind # "unexpected"
    /\ pc = "retry_ret" => (Len(opLog) >= 1 /\ retry_out.kind \in {"result", "fatal", "terminal"})

\* C36: when the operation failed with retryable errors on its first k-1
\* invocations and returns on invocation k <= max_retries, the engine
\* returns that result, has invoked the operation exactly k times and has
\* slept exactly k-1 times; while only retryable failures have occurred
\* and attempts remain, the engine has slept once per failure and goes on
C36_SuccessAfterRetries ==
    /\ \A k \in 1..Len(opLog) :
        (opLog[k] = Returned /\ \A i \in 1..(k - 1) : opLog[i] \in RetryableClass) =>
            /\ k <= max_retries
            /\ Len(opLog) = k
            /\ pc # "retry"
            /\ retry_out = [kind |-> "result", err |-> NoErr, n |-> max_retries]
            /\ Len(sleeps) = k - 1
    /\ (Range(opLog) \subseteq RetryableClass /\ Len(opLog) < max_retries) =>
            /\ pc = "retry"
            /\ Len(sleeps) = Len(opLog)

\* the operation returned on the third of three attempts after a read
\* timeout and a connection error
C36_Witness ==
    /\ pc = "retry_ret"
    /\ max_retries = 3
    /\ opLog = <<ErrReadTimeout, ErrConnection, Returned>>
    /\ Len(sleeps) = 2
    /\ retry_out.kind = "result"

\* C37: when the raw-protocol fallback downloader reports failure (no raw
\* data, no candidate, or every candidate failed in transfer or while
\* writing), no file written by this call lies at the destination path
C37_Original ==
    (pc = "done" /\ use_fallback /\ rawFetches >= 1 /\ ~result.ok) =>
        (download_path \in files => download_path \in files0)

\* the threads inside perform_incremental_backup
Running == {t \in BackupThreads : tpc[t] = "backup"}

\* C38: at most one backup thread executes perform_incremental_backup at a
\* time, and a thread that found the lock file present and skipped the
\* backup does not remove the lock file
C38_Original ==
    /\ Cardinality(Running) <= 1
    /\ skipped \cap unlinked = {}

\* C39: whenever a backup thread that created the lock file terminates,
\* whatever the outcome of the backup, the lock file no longer exists: the
\* step that ends the thread, the last one of remove_backup_lock, leaves
\* the lock file absent
C39_LockReleased ==
    [][\A t \in created : (tpc[t] # "done" /\ tpc'[t] = "done") => ~lock_file']_vars

\* a thread that created the lock file has terminated while another thread
\* was still inside the backup, and the lock file is gone
C39_Witness ==
    /\ \E t \in created : tpc[t] = "done" /\ t \in unlinked
    /\ Running # {}
    /\ ~lock_file
====
